---- MODULE Spec2Model ----
(***************************************************************************)
(* Submission / moderation workflow of bot.py: per-user flood control      *)
(* (UserLimitsManager), the submission store (PendingPostsManager), the    *)
(* media-group collector with its polling sweep, and the approve / reject  *)
(* callback.  Handlers are coroutines on one event loop: an action of this *)
(* module is the code a handler runs between two awaits.                   *)
(*                                                                         *)
(* Time is counted in milliseconds (time.time() * 1000) from an instant    *)
(* that is a multiple of 10^9 ms, so that post ids are now % 10^9.         *)
(***************************************************************************)
EXTENDS Integers, Sequences, FiniteSets, TLC

\* ------------------------------------------------------------ constants
MAX_SUGGESTIONS_PER_DAY == 20
SUGGESTION_COOLDOWN_SECONDS == 2
DAY_SECONDS == 86400
POST_ID_MODULUS == 1000000000
MS_PER_SECOND == 1000
QUIET_SECONDS == 2
SWEEP_SLEEP_SECONDS == 1
SECONDS_PER_HOUR == 3600
SECONDS_PER_MINUTE == 60

CooldownMs == SUGGESTION_COOLDOWN_SECONDS * MS_PER_SECOND
DayMs == DAY_SECONDS * MS_PER_SECOND
QuietMs == QUIET_SECONDS * MS_PER_SECOND
SweepSleepMs == SWEEP_SLEEP_SECONDS * MS_PER_SECOND

\* ------------------------------------------------------------ bounds
\* The clock takes the values wrap * 10^9 + day * 86400000 + sec * 1000, with
\* wrap in 0..1, day in 0..MaxDays and sec from 0 to the bound of the
\* specification.
ModerationSecs == 2
QuotaSecs == 2
RaceSecs == 3
GroupsSecs == 6
FinalizeSecs == 3
DispatchSecs == 3
StorageSecs == 2
PartsSecs == 3
AdminSecs == 3
MaxDays == 1
\* Submissions created in one run, and parts received in one run.
MaxSubmissions == 2
MaxParts == 3
\* Posts on the channel after which admins post no more.
MaxPosts == 1

\* ------------------------------------------------------------ identities
None == "None"
NoPostId == 0 - 1
MAIN_ADMIN_ID == "main"
OtherAdmins == {"adm"}
Submitters == {"u1", "u2"}
Identities == {MAIN_ADMIN_ID} \cup OtherAdmins \cup Submitters
GroupIds == {"g1", "g2"}
FileIds == {"f1", "f2", "f3"}
Captions == {None, "c1", "c2"}
MediaTypes == {"photo", "video"}

\* ------------------------------------------------------------ helpers
Range(s) == {s[i] : i \in 1..Len(s)}
Contains(s, x) == \E i \in 1..Len(s) : s[i] = x
Without(s, x) == SelectSeq(s, LAMBDA y : y # x)
Put(f, k, v) == [x \in DOMAIN f \cup {k} |-> IF x = k THEN v ELSE f[x]]
Drop(f, k) == [x \in DOMAIN f \ {k} |-> f[x]]

\* ------------------------------------------------------------ rate limiter
NoReason == [kind |-> "", hours |-> 0, minutes |-> 0, seconds |-> 0]

\* f"You've reached the daily limit ... try again in {hours}h {minutes}m."
DailyReason(rec, current_time) ==
    LET until_reset == DayMs - (current_time - rec.day_start)
    IN  [kind |-> "daily",
         hours |-> until_reset \div (SECONDS_PER_HOUR * MS_PER_SECOND),
         minutes |-> (until_reset % (SECONDS_PER_HOUR * MS_PER_SECOND))
                        \div (SECONDS_PER_MINUTE * MS_PER_SECOND),
         seconds |-> 0]

\* f"Please wait {minutes}m {seconds}s before submitting another suggestion."
WaitReason(rec, current_time) ==
    LET remaining == CooldownMs - (current_time - rec.last_suggestion_time)
    IN  [kind |-> "wait",
         hours |-> 0,
         minutes |-> remaining \div (SECONDS_PER_MINUTE * MS_PER_SECOND),
         seconds |-> (remaining % (SECONDS_PER_MINUTE * MS_PER_SECOND))
                        \div MS_PER_SECOND]

\* Mutant of the daily-cap test: > for >=.
DailyCapExceeded(rec) == rec.suggestions_today > MAX_SUGGESTIONS_PER_DAY

\* The daily-cap test of can_suggest.
DailyCapReached(rec) == rec.suggestions_today >= MAX_SUGGESTIONS_PER_DAY

\* Mutant of the cooldown test: the cooldown taken one second too short.
CooldownShort(rec, current_time) ==
    current_time - rec.last_suggestion_time < CooldownMs - MS_PER_SECOND

\* The cooldown test of can_suggest.
CooldownActive(rec, current_time) ==
    current_time - rec.last_suggestion_time < CooldownMs

\* UserLimitsManager.can_suggest: (allowed, reason).
can_suggest(limits, user_id, current_time) ==
    IF user_id \notin DOMAIN limits
    THEN [allowed |-> TRUE, reason |-> NoReason]
    ELSE IF DailyCapReached(limits[user_id])
    THEN [allowed |-> FALSE, reason |-> DailyReason(limits[user_id], current_time)]
    ELSE IF CooldownActive(limits[user_id], current_time)
    THEN [allowed |-> FALSE, reason |-> WaitReason(limits[user_id], current_time)]
    ELSE [allowed |-> TRUE, reason |-> NoReason]

\* Mutant of the window test: >= for >.
WindowRolledOverAtDay(rec, current_time) == current_time - rec.day_start >= DayMs

\* The window test of record_suggestion.
WindowRolledOver(rec, current_time) == current_time - rec.day_start > DayMs

\* UserLimitsManager.record_suggestion: the user_limits after the call.
record_suggestion(limits, user_id, current_time) ==
    IF user_id \notin DOMAIN limits
    THEN Put(limits, user_id,
             [suggestions_today |-> 1,
              last_suggestion_time |-> current_time,
              day_start |-> current_time,
              total_suggestions |-> 1,
              approved_suggestions |-> 0,
              rejected_suggestions |-> 0])
    ELSE LET rec == limits[user_id]
             rolled == WindowRolledOver(rec, current_time)
         IN  [limits EXCEPT ![user_id] =
                 [rec EXCEPT
                     !.suggestions_today = IF rolled THEN 1 ELSE @ + 1,
                     !.day_start = IF rolled THEN current_time ELSE @,
                     !.last_suggestion_time = current_time,
                     !.total_suggestions = @ + 1]]

\* Mutant of record_suggestion_result: a rejection counts in both counters.
record_suggestion_result_both(limits, user_id, approved) ==
    IF user_id \notin DOMAIN limits THEN limits
    ELSE IF approved
    THEN [limits EXCEPT ![user_id].approved_suggestions = @ + 1]
    ELSE [limits EXCEPT ![user_id].rejected_suggestions = @ + 1,
                        ![user_id].approved_suggestions = @ + 1]

\* UserLimitsManager.record_suggestion_result: the user_limits after the call.
record_suggestion_result(limits, user_id, approved) ==
    IF user_id \notin DOMAIN limits THEN limits
    ELSE IF approved
    THEN [limits EXCEPT ![user_id].approved_suggestions = @ + 1]
    ELSE [limits EXCEPT ![user_id].rejected_suggestions = @ + 1]

\* ------------------------------------------------------------ submission store
\* post_id = int(time.time() * 1000) % 1000000000
PostId(current_time) == current_time % POST_ID_MODULUS

\* The record add_pending_post stores.  media_ids is a Python list: `shared`
\* names the group buffer whose list object it is (None for a list of its own).
\* `serial` is a history field: the number of the creation that made the record.
\* `saved` is a history field: the media_ids of the record in pending_posts.json,
\* as the last save_pending_posts wrote them.
NewPost(user_id, media_ids, media_type, caption, media_group_id, original_message_id, current_time, serial) ==
    [user_id |-> user_id,
     media_ids |-> media_ids,
     media_type |-> media_type,
     caption |-> caption,
     timestamp |-> current_time,
     media_group_id |-> media_group_id,
     original_message_id |-> original_message_id,
     status |-> "pending",
     shared |-> media_group_id,
     serial |-> serial,
     saved |-> media_ids]

\* PendingPostsManager.add_pending_post: the pending_posts after the call.
add_pending_post(posts, post_id, post) == Put(posts, post_id, post)

\* Python's None where a post is expected.
NoPost ==
    [user_id |-> None, media_ids |-> <<>>, media_type |-> None, caption |-> None,
     timestamp |-> 0, media_group_id |-> None, original_message_id |-> None,
     status |-> None, shared |-> None, serial |-> 0, saved |-> <<>>]

\* Mutant of get_pending_post: an unknown id gives a new pending record.
get_pending_post_or_new(posts, post_id) ==
    IF post_id \in DOMAIN posts THEN posts[post_id]
    ELSE [NoPost EXCEPT !.status = "pending", !.media_ids = <<"f1">>]

\* PendingPostsManager.get_pending_post
get_pending_post(posts, post_id) ==
    IF post_id \in DOMAIN posts THEN posts[post_id] ELSE NoPost

\* PendingPostsManager.update_post_status: the pending_posts after the call.
update_post_status(posts, post_id, status) ==
    IF post_id \in DOMAIN posts
    THEN [posts EXCEPT ![post_id].status = status]
    ELSE posts

\* PendingPostsManager.update_post_status: its return value.
update_post_status_result(posts, post_id) == post_id \in DOMAIN posts

\* PendingPostsManager.get_all_pending_posts
get_all_pending_posts(posts) ==
    {k \in DOMAIN posts : posts[k].status = "pending"}

\* ------------------------------------------------------------ state
VARIABLES
    now,                    \* time.time(), in ms
    admins,                 \* the ids stored in admins.json
    commands,               \* history: the admin commands handled so far
    user_limits,            \* UserLimitsManager.user_limits
    pending_posts,          \* PendingPostsManager.pending_posts
    media_group_collector,  \* the module-level dict of group buffers
    collector_order,        \* its keys in insertion order (dict order)
    handlers,               \* the running handle_message coroutines
    callbacks,              \* the running process_suggestion_action coroutines
    sweep,                  \* the media_group_cleanup_task coroutine
    channel,                \* what was sent to CHANNEL_ID, in order
    review_msgs,            \* <<admin, post id>>: approve/reject buttons delivered
    notices,                \* decision notices delivered to submitters
    created,                \* history: number of add_pending_post calls so far
    hist,                   \* history: per creation, what happened to it
    parts                   \* history: per group id, the parts received so far

clockVars == <<now>>
storeVars == <<user_limits, pending_posts>>
groupVars == <<media_group_collector, collector_order, parts>>
taskVars == <<handlers, callbacks, sweep>>
outVars == <<channel, review_msgs, notices>>
histVars == <<created, hist>>
roleVars == <<admins, commands>>
vars == <<now, admins, commands, user_limits, pending_posts, media_group_collector,
          collector_order, handlers, callbacks, sweep, channel, review_msgs,
          notices, created, hist, parts>>

Handlers == {"h1", "h2"}
Callbacks == {"k1", "k2"}

\* Mutant of is_authorized: everyone is authorized.
is_authorized_anyone(user_id) == TRUE

\* Mutant of is_authorized: the admins are those of the start of the process.
is_authorized_cached(user_id) == user_id = MAIN_ADMIN_ID \/ user_id \in OtherAdmins

\* is_authorized
is_authorized(user_id) == user_id = MAIN_ADMIN_ID \/ user_id \in admins

\* admin_ids = list(set([MAIN_ADMIN_ID] + list(admins.keys())))
admin_ids == {MAIN_ADMIN_ID} \cup admins

\* The list object behind a post's media_ids, as it reads now.
MediaIds(post) ==
    IF post.shared # None /\ post.shared \in DOMAIN media_group_collector
    THEN media_group_collector[post.shared].media_ids
    ELSE post.media_ids

\* PendingPostsManager.save_pending_posts: json.dump of the whole dict, every
\* list as it reads at that moment.
save_pending_posts(posts) ==
    [k \in DOMAIN posts |-> [posts[k] EXCEPT !.saved = MediaIds(posts[k])]]

NewHist == [resolved |-> 0, published |-> 0, counted |-> 0, noticed |-> 0]

\* ------------------------------------------------------------ message handlers
IdleHandler ==
    [pc |-> "idle", user |-> None, is_admin |-> FALSE, media_group_id |-> None,
     file_id |-> None, media_type |-> None, caption |-> None,
     message_id |-> None, post_id |-> NoPostId, reason |-> NoReason, todo |-> {}]

NoParts ==
    [files |-> <<>>, loose |-> 0, cuts |-> <<>>, last |-> 0,
     buffers |-> 0, submissions |-> 0, refused |-> 0, dispatched |-> 0,
     captions |-> <<>>]

RECURSIVE SumLen(_, _)
SumLen(log, groups) ==
    IF groups = {} THEN 0
    ELSE LET g == CHOOSE x \in groups : TRUE
         IN  Len(log[g].files) + SumLen(log, groups \ {g})

PartsReceived == SumLen(parts, DOMAIN parts)

\* handle_message up to its first await (set_commands_for_user).
Receive(h, msg) ==
    /\ handlers[h].pc = "idle"
    /\ handlers' = [handlers EXCEPT ![h] =
           [IdleHandler EXCEPT
               !.pc = "set_commands",
               !.user = msg.user,
               !.is_admin = is_authorized(msg.user),
               !.media_group_id = msg.media_group_id,
               !.file_id = msg.file_id,
               !.media_type = msg.media_type,
               !.caption = msg.caption,
               !.message_id = msg.message_id]]
    /\ UNCHANGED <<clockVars, roleVars, storeVars, groupVars, callbacks, sweep,
                   outVars, histVars>>

\* Mutant of process_media_group: the file id is appended without the
\* membership test.
process_media_group_append(collector, user_id, media_group_id, media_type, file_id, message_id, caption, current_time) ==
    LET fresh == [user_id |-> user_id,
                  media_ids |-> <<>>,
                  media_type |-> media_type,
                  caption |-> caption,
                  last_update |-> current_time,
                  first_message_id |-> message_id,
                  complete |-> FALSE]
        buf == IF media_group_id \in DOMAIN collector
               THEN collector[media_group_id] ELSE fresh
    IN  Put(collector, media_group_id,
            [buf EXCEPT
                !.media_ids = Append(@, file_id),
                !.last_update = current_time,
                !.caption = IF caption # None /\ @ = None THEN caption ELSE @])

\* Mutant of process_media_group: a part's caption replaces the stored one.
process_media_group_last_caption(collector, user_id, media_group_id, media_type, file_id, message_id, caption, current_time) ==
    LET fresh == [user_id |-> user_id,
                  media_ids |-> <<>>,
                  media_type |-> media_type,
                  caption |-> caption,
                  last_update |-> current_time,
                  first_message_id |-> message_id,
                  complete |-> FALSE]
        buf == IF media_group_id \in DOMAIN collector
               THEN collector[media_group_id] ELSE fresh
    IN  Put(collector, media_group_id,
            [buf EXCEPT
                !.media_ids = IF Contains(@, file_id) THEN @ ELSE Append(@, file_id),
                !.last_update = current_time,
                !.caption = IF caption # None THEN caption ELSE @])

\* process_media_group: the collector after the call.
process_media_group(collector, user_id, media_group_id, media_type, file_id, message_id, caption, current_time) ==
    LET fresh == [user_id |-> user_id,
                  media_ids |-> <<>>,
                  media_type |-> media_type,
                  caption |-> caption,
                  last_update |-> current_time,
                  first_message_id |-> message_id,
                  complete |-> FALSE]
        buf == IF media_group_id \in DOMAIN collector
               THEN collector[media_group_id] ELSE fresh
    IN  Put(collector, media_group_id,
            [buf EXCEPT
                !.media_ids = IF Contains(@, file_id) THEN @ ELSE Append(@, file_id),
                !.last_update = current_time,
                !.caption = IF caption # None /\ @ = None THEN caption ELSE @])

\* The dict's key order after process_media_group.
OrderAfterPart(order, media_group_id) ==
    IF Contains(order, media_group_id) THEN order ELSE Append(order, media_group_id)

\* History of the parts of a group: the file ids in arrival order; how many
\* parts came the quiet period or more after the one before it; the
\* indexes of the parts that came more than the quiet period after the one
\* before; the time of the last part; how many buffers were made for the group,
\* how many submissions were made from them, how many times the rate limiter
\* refused one and how many times one was delivered to a reviewer.
NotePart(log, file_id, current_time, fresh) ==
    [log EXCEPT
        !.buffers = IF fresh THEN @ + 1 ELSE @,
        !.files = Append(@, file_id),
        !.loose = IF Len(log.files) > 0 /\ current_time - log.last >= QuietMs
                  THEN @ + 1 ELSE @,
        !.cuts = IF Len(log.files) > 0 /\ current_time - log.last > QuietMs
                 THEN Append(@, Len(log.files) + 1) ELSE @,
        !.last = current_time]

\* History of the parts of a group: their captions in arrival order.
NoteCaption(log, caption) == [log EXCEPT !.captions = Append(@, caption)]

\* Mutant of the group-part intake: every buffered part is charged to the quota.
SuggestPartCharged(h) ==
    LET m == handlers[h]
        collector == process_media_group(media_group_collector, m.user,
                         m.media_group_id, m.media_type, m.file_id,
                         m.message_id, m.caption, now)
    IN  /\ m.pc = "set_commands"
        /\ ~m.is_admin
        /\ m.media_group_id # None
        /\ PartsReceived < MaxParts
        /\ media_group_collector' = collector
        /\ collector_order' = OrderAfterPart(collector_order, m.media_group_id)
        /\ parts' = [parts EXCEPT ![m.media_group_id] =
               NoteCaption(NotePart(@, m.file_id, now,
                               m.media_group_id \notin DOMAIN media_group_collector),
                           m.caption)]
        /\ handlers' = [handlers EXCEPT ![h] =
               IF Len(collector[m.media_group_id].media_ids) = 1
               THEN [m EXCEPT !.pc = "reply_collecting"]
               ELSE IdleHandler]
        /\ user_limits' = record_suggestion(user_limits, m.user, now)
        /\ UNCHANGED <<clockVars, roleVars, pending_posts, callbacks, sweep, outVars,
                       histVars>>

\* handle_user_suggestion, a message with a media_group_id: from the return of
\* set_commands_for_user to the reply (first part) or to the end.
SuggestPart(h) ==
    LET m == handlers[h]
        collector == process_media_group(media_group_collector, m.user,
                         m.media_group_id, m.media_type, m.file_id,
                         m.message_id, m.caption, now)
    IN  /\ m.pc = "set_commands"
        /\ ~m.is_admin
        /\ m.media_group_id # None
        /\ PartsReceived < MaxParts
        /\ media_group_collector' = collector
        /\ collector_order' = OrderAfterPart(collector_order, m.media_group_id)
        /\ parts' = [parts EXCEPT ![m.media_group_id] =
               NoteCaption(NotePart(@, m.file_id, now,
                               m.media_group_id \notin DOMAIN media_group_collector),
                           m.caption)]
        /\ handlers' = [handlers EXCEPT ![h] =
               IF Len(collector[m.media_group_id].media_ids) = 1
               THEN [m EXCEPT !.pc = "reply_collecting"]
               ELSE IdleHandler]
        /\ UNCHANGED <<clockVars, roleVars, storeVars, callbacks, sweep, outVars,
                       histVars>>

\* Mutant of the single-item intake: an await between the rate-limiter check and
\* record_suggestion, so that another handler can run between the two.
SuggestSingleSplit(h) ==
    LET m == handlers[h]
        check == can_suggest(user_limits, m.user, now)
        post_id == PostId(now)
    IN  /\ ~m.is_admin
        /\ m.media_group_id = None
        /\ \/ /\ m.pc = "set_commands"
              /\ handlers' = [handlers EXCEPT ![h] =
                     IF check.allowed
                     THEN [m EXCEPT !.pc = "admitted"]
                     ELSE [m EXCEPT !.pc = "reply_limit", !.reason = check.reason]]
              /\ UNCHANGED <<storeVars, histVars>>
           \/ /\ m.pc = "admitted"
              /\ created < MaxSubmissions
              /\ user_limits' = record_suggestion(user_limits, m.user, now)
              /\ pending_posts' = save_pending_posts(add_pending_post(pending_posts, post_id,
                     NewPost(m.user, <<m.file_id>>, m.media_type, m.caption,
                             None, m.message_id, now, created + 1)))
              /\ created' = created + 1
              /\ hist' = Put(hist, created + 1, NewHist)
              /\ handlers' = [handlers EXCEPT ![h] =
                     [m EXCEPT !.pc = "reply_submitted", !.post_id = post_id]]
        /\ UNCHANGED <<clockVars, roleVars, groupVars, callbacks, sweep, outVars>>

\* Mutant of the single-item intake: a refused attempt is charged to the quota.
SuggestSingleRefusalCharged(h) ==
    LET m == handlers[h]
        check == can_suggest(user_limits, m.user, now)
        post_id == PostId(now)
    IN  /\ m.pc = "set_commands"
        /\ ~m.is_admin
        /\ m.media_group_id = None
        /\ IF ~check.allowed
           THEN /\ handlers' = [handlers EXCEPT ![h] =
                       [m EXCEPT !.pc = "reply_limit", !.reason = check.reason]]
                /\ user_limits' = record_suggestion(user_limits, m.user, now)
                /\ UNCHANGED <<pending_posts, histVars>>
           ELSE /\ created < MaxSubmissions
                /\ user_limits' = record_suggestion(user_limits, m.user, now)
                /\ pending_posts' = save_pending_posts(add_pending_post(pending_posts, post_id,
                       NewPost(m.user, <<m.file_id>>, m.media_type, m.caption,
                               None, m.message_id, now, created + 1)))
                /\ created' = created + 1
                /\ hist' = Put(hist, created + 1, NewHist)
                /\ handlers' = [handlers EXCEPT ![h] =
                       [m EXCEPT !.pc = "reply_submitted", !.post_id = post_id]]
        /\ UNCHANGED <<clockVars, roleVars, groupVars, callbacks, sweep, outVars>>

\* handle_user_suggestion, a single media item: the rate-limiter check, and for
\* an admitted user record_suggestion, the post id and add_pending_post, which
\* the code runs with no await between them.
SuggestSingle(h) ==
    LET m == handlers[h]
        check == can_suggest(user_limits, m.user, now)
        post_id == PostId(now)
    IN  /\ m.pc = "set_commands"
        /\ ~m.is_admin
        /\ m.media_group_id = None
        /\ IF ~check.allowed
           THEN /\ handlers' = [handlers EXCEPT ![h] =
                       [m EXCEPT !.pc = "reply_limit", !.reason = check.reason]]
                /\ UNCHANGED <<storeVars, histVars>>
           ELSE /\ created < MaxSubmissions
                /\ user_limits' = record_suggestion(user_limits, m.user, now)
                /\ pending_posts' = save_pending_posts(add_pending_post(pending_posts, post_id,
                       NewPost(m.user, <<m.file_id>>, m.media_type, m.caption,
                               None, m.message_id, now, created + 1)))
                /\ created' = created + 1
                /\ hist' = Put(hist, created + 1, NewHist)
                /\ handlers' = [handlers EXCEPT ![h] =
                       [m EXCEPT !.pc = "reply_submitted", !.post_id = post_id]]
        /\ UNCHANGED <<clockVars, roleVars, groupVars, callbacks, sweep, outVars>>

\* The replies "Collecting your media group..." and the limit reason: the handler
\* ends after them, whether the send succeeds or raises.
ReplyAndReturn(h) ==
    /\ handlers[h].pc \in {"reply_collecting", "reply_limit"}
    /\ handlers' = [handlers EXCEPT ![h] = IdleHandler]
    /\ UNCHANGED <<clockVars, roleVars, storeVars, groupVars, callbacks, sweep,
                   outVars, histVars>>

\* The reply "Your post has been submitted for review": when it raises, the
\* exception leaves the handler; otherwise load_admins and the dispatch loop.
ReplySubmitted(h, ok) ==
    /\ handlers[h].pc = "reply_submitted"
    /\ handlers' = [handlers EXCEPT ![h] =
           IF ok THEN [@ EXCEPT !.pc = "dispatch", !.todo = admin_ids]
           ELSE IdleHandler]
    /\ UNCHANGED <<clockVars, roleVars, storeVars, groupVars, callbacks, sweep,
                   outVars, histVars>>

\* One await send_post_to_admin of the dispatch loop of handle_user_suggestion:
\* its first send_message is outside any try, so a failure leaves the handler.
DispatchSingle(h, admin_id, ok) ==
    LET m == handlers[h]
    IN  /\ m.pc = "dispatch"
        /\ admin_id \in m.todo
        /\ review_msgs' = IF ok THEN review_msgs \cup {<<admin_id, m.post_id>>}
                          ELSE review_msgs
        /\ handlers' = [handlers EXCEPT ![h] =
               IF ok /\ m.todo # {admin_id}
               THEN [m EXCEPT !.todo = @ \ {admin_id}]
               ELSE IdleHandler]
        /\ UNCHANGED <<clockVars, roleVars, storeVars, groupVars, callbacks, sweep,
                       channel, notices, histVars>>

\* ------------------------------------------------------------ the sweep
SleepingSweep(wake) ==
    [pc |-> "sleep", wake |-> wake, queue |-> <<>>, group |-> None,
     post_id |-> NoPostId, reason |-> NoReason, todo |-> {}]

DeadSweep == [SleepingSweep(0) EXCEPT !.pc = "dead"]

\* Mutant of the scan: every buffer that is not complete, quiet or not.
groups_to_process_no_quiet(collector, order, current_time) ==
    SelectSeq(order, LAMBDA g : ~collector[g].complete)

\* groups_to_process of media_group_cleanup_task, in the dict's order.
groups_to_process(collector, order, current_time) ==
    SelectSeq(order, LAMBDA g :
        /\ ~collector[g].complete
        /\ current_time - collector[g].last_update > QuietMs)

\* Mutant of the early returns: no test of the complete flag.
ReturnsAtOnceAbsentOnly(collector, g) == g \notin DOMAIN collector

\* The early returns of handle_complete_media_group: calls that reach no await.
ReturnsAtOnce(collector, g) ==
    g \notin DOMAIN collector \/ collector[g].complete

RECURSIVE SkipReturned(_, _)
SkipReturned(collector, queue) ==
    IF queue = <<>> THEN <<>>
    ELSE IF ReturnsAtOnce(collector, Head(queue))
    THEN SkipReturned(collector, Tail(queue))
    ELSE queue

\* When a group buffer is deleted, its media_ids list lives on in the posts made
\* from it: from then on nothing else can reach that list.
UnsharePost(post, g, media_ids) ==
    IF post.shared = g
    THEN [post EXCEPT !.media_ids = media_ids, !.shared = None]
    ELSE post

UnsharePosts(posts, g, media_ids) ==
    [k \in DOMAIN posts |-> UnsharePost(posts[k], g, media_ids)]

\* The sweep's loop "for media_group_id in groups_to_process: await
\* handle_complete_media_group(...)" from the point where `queue` is left to
\* process, up to the next await: the complete flag, the rate-limiter check and,
\* for an admitted user, record_suggestion, the post id and add_pending_post of
\* the first group that does not return at once; with nothing left, the sleep.
RunQueue(queue0, collector, posts, log) ==
    LET queue == SkipReturned(collector, queue0)
    IN  IF queue = <<>>
        THEN /\ sweep' = SleepingSweep(now + SweepSleepMs)
             /\ media_group_collector' = collector
             /\ pending_posts' = posts
             /\ parts' = log
             /\ UNCHANGED <<user_limits, histVars>>
        ELSE LET g == Head(queue)
                 buf == collector[g]
                 check == can_suggest(user_limits, buf.user_id, now)
                 post_id == PostId(now)
             IN  /\ media_group_collector' = [collector EXCEPT ![g].complete = TRUE]
                 /\ IF ~check.allowed
                    THEN /\ sweep' = [SleepingSweep(0) EXCEPT
                                !.pc = "limit_notify", !.queue = Tail(queue),
                                !.group = g, !.reason = check.reason]
                         /\ pending_posts' = posts
                         /\ parts' = [log EXCEPT ![g].refused = @ + 1]
                         /\ UNCHANGED <<user_limits, histVars>>
                    ELSE /\ created < MaxSubmissions
                         /\ user_limits' = record_suggestion(user_limits, buf.user_id, now)
                         /\ pending_posts' = save_pending_posts(add_pending_post(posts, post_id,
                                NewPost(buf.user_id, buf.media_ids, buf.media_type,
                                        buf.caption, g, buf.first_message_id, now,
                                        created + 1)))
                         /\ created' = created + 1
                         /\ hist' = Put(hist, created + 1, NewHist)
                         /\ parts' = [log EXCEPT ![g].submissions = @ + 1]
                         /\ sweep' = [SleepingSweep(0) EXCEPT
                                !.pc = "notify_user", !.queue = Tail(queue),
                                !.group = g, !.post_id = post_id]

\* media_group_cleanup_task waking from asyncio.sleep(1): the scan, then the loop.
SweepScan ==
    /\ sweep.pc = "sleep"
    /\ now >= sweep.wake
    /\ RunQueue(groups_to_process(media_group_collector, collector_order, now),
                media_group_collector, pending_posts, parts)
    /\ UNCHANGED <<clockVars, roleVars, collector_order, handlers, callbacks, outVars>>

\* handle_complete_media_group, the rate limiter refused: the notice to the user
\* is sent inside a try, then the function returns without deleting the buffer.
SweepLimitNotified ==
    /\ sweep.pc = "limit_notify"
    /\ RunQueue(sweep.queue, media_group_collector, pending_posts, parts)
    /\ UNCHANGED <<clockVars, roleVars, collector_order, handlers, callbacks, outVars>>

\* handle_complete_media_group: the notice "Your media group has been submitted"
\* (inside a try), then load_admins and the dispatch loop.
SweepUserNotified ==
    /\ sweep.pc = "notify_user"
    /\ sweep' = [sweep EXCEPT !.pc = "dispatch", !.todo = admin_ids]
    /\ UNCHANGED <<clockVars, roleVars, storeVars, groupVars, handlers, callbacks,
                   outVars, histVars>>

\* One await send_post_to_admin of the dispatch loop of
\* handle_complete_media_group.  A failure is caught nowhere: it ends the sweep
\* task.  After the last one the buffer is deleted and the loop goes on.
SweepDispatch(admin_id, ok) ==
    LET g == sweep.group
        media_ids == media_group_collector[g].media_ids
        log == [parts EXCEPT ![g].dispatched = @ + 1]
    IN  /\ sweep.pc = "dispatch"
        /\ admin_id \in sweep.todo
        /\ review_msgs' = IF ok THEN review_msgs \cup {<<admin_id, sweep.post_id>>}
                          ELSE review_msgs
        /\ UNCHANGED <<clockVars, roleVars, handlers, channel, notices>>
        /\ IF ~ok
           THEN /\ sweep' = DeadSweep
                /\ UNCHANGED <<storeVars, groupVars, callbacks, histVars>>
           ELSE IF sweep.todo # {admin_id}
           THEN /\ sweep' = [sweep EXCEPT !.todo = @ \ {admin_id}]
                /\ parts' = log
                /\ UNCHANGED <<storeVars, media_group_collector, collector_order,
                               callbacks, histVars>>
           ELSE /\ collector_order' = Without(collector_order, g)
                /\ callbacks' = [c \in DOMAIN callbacks |->
                       [callbacks[c] EXCEPT !.post = UnsharePost(@, g, media_ids)]]
                /\ RunQueue(sweep.queue, Drop(media_group_collector, g),
                            UnsharePosts(pending_posts, g, media_ids), log)

\* ------------------------------------------------------------ explicit finalization
\* handle_complete_media_group(g) awaited by a coroutine other than the sweep (the
\* program has none; the function is written to bear such calls).  The coroutine
\* takes the slot h.  From the call to the first await: the early returns, the
\* complete flag, the rate-limiter check and, for an admitted user,
\* record_suggestion, the post id and add_pending_post.
FinalizeCall(h, g) ==
    LET buf == media_group_collector[g]
        check == can_suggest(user_limits, buf.user_id, now)
        post_id == PostId(now)
        call == [IdleHandler EXCEPT !.media_group_id = g]
    IN  /\ handlers[h].pc = "idle"
        /\ UNCHANGED <<clockVars, roleVars, collector_order, callbacks, sweep, outVars>>
        /\ IF ReturnsAtOnce(media_group_collector, g)
           THEN /\ handlers' = [handlers EXCEPT ![h] =
                       [call EXCEPT !.pc =
                           IF g \in DOMAIN media_group_collector
                           THEN "finalize_complete" ELSE "finalize_no_buffer"]]
                /\ UNCHANGED <<storeVars, media_group_collector, parts, histVars>>
           ELSE /\ media_group_collector' =
                       [media_group_collector EXCEPT ![g].complete = TRUE]
                /\ IF ~check.allowed
                   THEN /\ handlers' = [handlers EXCEPT ![h] =
                               [call EXCEPT !.pc = "finalize_limit_notify",
                                            !.reason = check.reason]]
                        /\ parts' = [parts EXCEPT ![g].refused = @ + 1]
                        /\ UNCHANGED <<storeVars, histVars>>
                   ELSE /\ created < MaxSubmissions
                        /\ user_limits' = record_suggestion(user_limits, buf.user_id, now)
                        /\ pending_posts' = save_pending_posts(add_pending_post(pending_posts, post_id,
                               NewPost(buf.user_id, buf.media_ids, buf.media_type,
                                       buf.caption, g, buf.first_message_id, now,
                                       created + 1)))
                        /\ created' = created + 1
                        /\ hist' = Put(hist, created + 1, NewHist)
                        /\ parts' = [parts EXCEPT ![g].submissions = @ + 1]
                        /\ handlers' = [handlers EXCEPT ![h] =
                               [call EXCEPT !.pc = "finalize_notify_user",
                                            !.post_id = post_id]]

\* The call returns: at once (no buffer, or a buffer marked complete), or after
\* the notice of the refusal.
FinalizeReturn(h) ==
    /\ handlers[h].pc \in {"finalize_no_buffer", "finalize_complete",
                           "finalize_limit_notify"}
    /\ handlers' = [handlers EXCEPT ![h] = IdleHandler]
    /\ UNCHANGED <<clockVars, roleVars, storeVars, groupVars, callbacks, sweep,
                   outVars, histVars>>

\* The notice "Your media group has been submitted" (inside a try), then
\* load_admins and the dispatch loop.
FinalizeUserNotified(h) ==
    /\ handlers[h].pc = "finalize_notify_user"
    /\ handlers' = [handlers EXCEPT ![h] =
           [@ EXCEPT !.pc = "finalize_dispatch", !.todo = admin_ids]]
    /\ UNCHANGED <<clockVars, roleVars, storeVars, groupVars, callbacks, sweep,
                   outVars, histVars>>

\* One await send_post_to_admin of the dispatch loop: a failure leaves the
\* coroutine; after the last one the buffer is deleted.
FinalizeDispatch(h, admin_id, ok) ==
    LET m == handlers[h]
        g == m.media_group_id
        media_ids == media_group_collector[g].media_ids
    IN  /\ m.pc = "finalize_dispatch"
        /\ admin_id \in m.todo
        /\ review_msgs' = IF ok THEN review_msgs \cup {<<admin_id, m.post_id>>}
                          ELSE review_msgs
        /\ parts' = IF ok THEN [parts EXCEPT ![g].dispatched = @ + 1] ELSE parts
        /\ UNCHANGED <<clockVars, roleVars, user_limits, sweep, channel, notices,
                       histVars>>
        /\ IF ~ok
           THEN /\ handlers' = [handlers EXCEPT ![h] = IdleHandler]
                /\ UNCHANGED <<pending_posts, media_group_collector,
                               collector_order, callbacks>>
           ELSE IF m.todo # {admin_id}
           THEN /\ handlers' = [handlers EXCEPT ![h] = [m EXCEPT !.todo = @ \ {admin_id}]]
                /\ UNCHANGED <<pending_posts, media_group_collector,
                               collector_order, callbacks>>
           ELSE /\ handlers' = [handlers EXCEPT ![h] = IdleHandler]
                /\ media_group_collector' = Drop(media_group_collector, g)
                /\ collector_order' = Without(collector_order, g)
                /\ pending_posts' = UnsharePosts(pending_posts, g, media_ids)
                /\ callbacks' = [c \in DOMAIN callbacks |->
                       [callbacks[c] EXCEPT !.post = UnsharePost(@, g, media_ids)]]

\* ------------------------------------------------------------ approve / reject
\* What callback_query.answer says: its kind and, for "This post has already
\* been {status}.", the status.
Answer(kind, status) == [kind |-> kind, status |-> status]

\* The channel post of a callback that has none to send.
NoAlbum == [media |-> <<>>, caption |-> None, serial |-> 0]

\* `album` is what the callback has built to send to the channel.  `told` is a
\* history field: the reviewers the callback's "Admin ... approved/rejected ..."
\* message was delivered to.
IdleCallback ==
    [pc |-> "idle", from_user |-> None, action |-> None, post_id |-> NoPostId,
     post |-> NoPost, album |-> NoAlbum, answer |-> Answer(None, None),
     told |-> {}]

\* notify_main_admin: whom it sends the message about user_id's action to.
notify_main_admin(user_id) ==
    IF user_id # MAIN_ADMIN_ID THEN {MAIN_ADMIN_ID} ELSE {}

Answered(c, kind) ==
    [callbacks[c] EXCEPT !.pc = "answered", !.answer = Answer(kind, None)]

\* Mutants of the status guard: no guard at all, and a guard that stops only
\* approved posts.
NotPendingNever(post) == FALSE
NotPendingOnlyApproved(post) == post.status = "approved"

\* The guard of process_suggestion_action on the stored status.
NotPending(post) == post.status # "pending"

\* What an approval sends to CHANNEL_ID: a photo group goes out whole with
\* send_media_group, every other kind sends media_ids[0] alone.  The album of a
\* photo group is built from media_ids before the send is awaited.
Published(post) ==
    [media |-> IF post.media_type = "photo" /\ post.media_group_id # None
               THEN MediaIds(post)
               ELSE <<MediaIds(post)[1]>>,
     caption |-> post.caption,
     serial |-> post.serial]

\* process_suggestion_action from its start to its first await: the
\* authorization, the lookup, the status guard and, for a pending post, the
\* status update, record_suggestion_result and, for an approval, the album.
CallbackStart(c, from_user, action, post_id) ==
    LET post == get_pending_post(pending_posts, post_id)
        me == [IdleCallback EXCEPT !.from_user = from_user, !.action = action,
                                   !.post_id = post_id]
        status == IF action = "approve" THEN "approved" ELSE "rejected"
    IN  /\ callbacks[c].pc = "idle"
        /\ UNCHANGED <<clockVars, roleVars, groupVars, handlers, sweep, outVars, created>>
        /\ IF ~is_authorized(from_user)
           THEN /\ callbacks' = [callbacks EXCEPT ![c] =
                       [me EXCEPT !.pc = "answered",
                                  !.answer = Answer("unauthorized", None)]]
                /\ UNCHANGED <<storeVars, hist>>
           ELSE IF post = NoPost
           THEN /\ callbacks' = [callbacks EXCEPT ![c] =
                       [me EXCEPT !.pc = "answered",
                                  !.answer = Answer("not_found", None)]]
                /\ UNCHANGED <<storeVars, hist>>
           ELSE IF NotPending(post)
           THEN /\ callbacks' = [callbacks EXCEPT ![c] =
                       [me EXCEPT !.pc = "answered",
                                  !.answer = Answer("already", post.status)]]
                /\ UNCHANGED <<storeVars, hist>>
           ELSE /\ pending_posts' =
                       save_pending_posts(update_post_status(pending_posts, post_id, status))
                /\ user_limits' = record_suggestion_result(user_limits, post.user_id,
                                                           action = "approve")
                /\ hist' = [hist EXCEPT
                       ![post.serial].resolved = @ + 1,
                       ![post.serial].counted =
                           IF post.user_id \in DOMAIN user_limits THEN @ + 1 ELSE @]
                /\ callbacks' = [callbacks EXCEPT ![c] =
                       [me EXCEPT !.pc = IF action = "approve" THEN "publish"
                                         ELSE "notify_user",
                                  !.post = [post EXCEPT !.status = status],
                                  !.album = IF action = "approve"
                                            THEN Published(post)
                                            ELSE NoAlbum]]

\* The channel send of an approval.  A failure (for a single photo: of the
\* watermarked send and of the fallback send) is caught by the outer except,
\* which answers "An error occurred" and returns.
CallbackPublish(c, ok) ==
    LET k == callbacks[c]
    IN  /\ k.pc = "publish"
        /\ IF ok
           THEN /\ channel' = Append(channel, k.album)
                /\ hist' = [hist EXCEPT ![k.post.serial].published = @ + 1]
                /\ callbacks' = [callbacks EXCEPT ![c].pc = "notify_user"]
           ELSE /\ callbacks' = [callbacks EXCEPT ![c] = Answered(c, "error")]
                /\ UNCHANGED <<channel, hist>>
        /\ UNCHANGED <<clockVars, roleVars, storeVars, groupVars, handlers, sweep,
                       review_msgs, notices, created>>

\* Mutant of the decision notice: sent outside the try, so that a failure
\* reaches the outer except.
CallbackNotifyUserUncaught(c, ok) ==
    LET k == callbacks[c]
    IN  /\ k.pc = "notify_user"
        /\ IF ok
           THEN /\ notices' = notices \cup
                       {[to |-> k.post.user_id, decision |-> k.post.status,
                         reply_to |-> k.post.original_message_id,
                         serial |-> k.post.serial]}
                /\ hist' = [hist EXCEPT ![k.post.serial].noticed = @ + 1]
                /\ callbacks' = [callbacks EXCEPT ![c].pc = "edit"]
           ELSE /\ callbacks' = [callbacks EXCEPT ![c] = Answered(c, "error")]
                /\ UNCHANGED <<notices, hist>>
        /\ UNCHANGED <<clockVars, roleVars, storeVars, groupVars, handlers, sweep,
                       channel, review_msgs, created>>

\* The decision notice to the submitter, sent inside a try: a reply to
\* original_message_id when the post has one.
CallbackNotifyUser(c, ok) ==
    LET k == callbacks[c]
    IN  /\ k.pc = "notify_user"
        /\ IF ok
           THEN /\ notices' = notices \cup
                       {[to |-> k.post.user_id, decision |-> k.post.status,
                         reply_to |-> k.post.original_message_id,
                         serial |-> k.post.serial]}
                /\ hist' = [hist EXCEPT ![k.post.serial].noticed = @ + 1]
           ELSE UNCHANGED <<notices, hist>>
        /\ callbacks' = [callbacks EXCEPT ![c].pc = "edit"]
        /\ UNCHANGED <<clockVars, roleVars, storeVars, groupVars, handlers, sweep,
                       channel, review_msgs, created>>

\* The rest of the callback: edit_reply_markup and the edits of the review
\* message (a failure reaches the outer except), then notify_main_admin, whose
\* send is inside a try of its own (`sent`: it returned), then the answer.
CallbackFinish(c, ok, sent) ==
    LET k == callbacks[c]
    IN  /\ k.pc = "edit"
        /\ callbacks' = [callbacks EXCEPT ![c] =
               IF ok
               THEN [Answered(c, "done") EXCEPT
                        !.told = IF sent THEN notify_main_admin(k.from_user) ELSE {}]
               ELSE Answered(c, "error")]
        /\ UNCHANGED <<clockVars, roleVars, storeVars, groupVars, handlers, sweep,
                       outVars, histVars>>

\* The answers awaited inside the try of process_suggestion_action: when one of
\* them raises, the outer except awaits the answer "An error occurred".
InsideTry == {"not_found", "already", "done"}

\* The awaited answer is over (`ok`: it returned).  The coroutine ends, unless
\* an answer inside the try raised: then it awaits the error answer.  The
\* unauthorized answer is outside the try and the error answer is in the except
\* clause: a failure of either ends the coroutine by the exception.
CallbackReturn(c, ok) ==
    /\ callbacks[c].pc = "answered"
    /\ callbacks' = [callbacks EXCEPT ![c] =
           IF ~ok /\ callbacks[c].answer.kind \in InsideTry
           THEN Answered(c, "error")
           ELSE IdleCallback]
    /\ UNCHANGED <<clockVars, roleVars, storeVars, groupVars, handlers, sweep,
                   outVars, histVars>>

\* ------------------------------------------------------------ views
\* view_pending_post, the callback "view_post_<id>" of the /pending list, up to
\* its first await.  is_authorized and get_pending_post are read here, once:
\* anyone but a reviewer is answered "You are not authorized to view pending
\* posts.", an id that is not in the store "This post no longer exists."; for a
\* stored post, whatever its status, the coroutine awaits send_post_to_admin
\* with the post_data it has read.
ViewPendingPost(c, from_user, post_id) ==
    LET post_data == get_pending_post(pending_posts, post_id)
        k == [IdleCallback EXCEPT !.from_user = from_user, !.post_id = post_id]
    IN  /\ callbacks[c].pc = "idle"
        /\ callbacks' = [callbacks EXCEPT ![c] =
               IF ~is_authorized(from_user)
               THEN [k EXCEPT !.pc = "view_answer",
                              !.answer = Answer("unauthorized", None)]
               ELSE IF post_data = NoPost
               THEN [k EXCEPT !.pc = "view_answer",
                              !.answer = Answer("not_found", None)]
               ELSE [k EXCEPT !.pc = "view_send", !.post = post_data]]
        /\ UNCHANGED <<clockVars, roleVars, storeVars, groupVars, handlers, sweep,
                       outVars, histVars>>

\* The await send_post_to_admin of view_pending_post is over: the presser has
\* the approve and reject buttons of the post (`ok`), whoever the reviewers are
\* by now, and the coroutine awaits its answer "Post details sent."; a send
\* that raised leaves the coroutine, which has no try.
ViewSent(c, ok) ==
    LET k == callbacks[c]
    IN  /\ k.pc = "view_send"
        /\ review_msgs' = IF ok THEN review_msgs \cup {<<k.from_user, k.post_id>>}
                          ELSE review_msgs
        /\ callbacks' = [callbacks EXCEPT ![c] =
               IF ok THEN [k EXCEPT !.pc = "view_answer",
                                    !.answer = Answer("sent", None)]
               ELSE IdleCallback]
        /\ UNCHANGED <<clockVars, roleVars, storeVars, groupVars, handlers, sweep,
                       channel, notices, histVars>>

\* The awaited answer of view_pending_post is over, returned or raised: the
\* coroutine ends.
ViewAnswered(c) ==
    /\ callbacks[c].pc = "view_answer"
    /\ callbacks' = [callbacks EXCEPT ![c] = IdleCallback]
    /\ UNCHANGED <<clockVars, roleVars, storeVars, groupVars, handlers, sweep,
                   outVars, histVars>>

\* ------------------------------------------------------------ the clock
WrapOf(t) == t \div POST_ID_MODULUS
DayOf(t) == (t % POST_ID_MODULUS) \div DayMs
SecOf(t) == ((t % POST_ID_MODULUS) % DayMs) \div MS_PER_SECOND

\* One second passes.
TickSecond(max_secs) ==
    /\ SecOf(now) < max_secs
    /\ now' = now + MS_PER_SECOND
    /\ UNCHANGED <<roleVars, storeVars, groupVars, taskVars, outVars, histVars>>

\* 24 hours pass.
TickDay ==
    /\ DayOf(now) < MaxDays
    /\ now' = now + DayMs
    /\ UNCHANGED <<roleVars, storeVars, groupVars, taskVars, outVars, histVars>>

\* 10^9 ms pass (11 days, 13 hours, 46 minutes and 40 seconds).
TickEpoch ==
    /\ now < POST_ID_MODULUS
    /\ now' = now + POST_ID_MODULUS
    /\ UNCHANGED <<roleVars, storeVars, groupVars, taskVars, outVars, histVars>>

\* ------------------------------------------------------------ initial states
\* The quota record a user has after n admitted submissions made at the pace of
\* the cooldown, the last of them at time t, all of them resolved (rejected) in
\* an earlier run: what load_user_limits reads at start.
LoadedRecord(n, t) ==
    [suggestions_today |-> n,
     last_suggestion_time |-> t,
     day_start |-> t - (n - 1) * CooldownMs,
     total_suggestions |-> n,
     approved_suggestions |-> 0,
     rejected_suggestions |-> n]

LoadedCounts == {MAX_SUGGESTIONS_PER_DAY - 1, MAX_SUGGESTIONS_PER_DAY}

\* user_limits.json at start: for each user of `who`, no record or a loaded one.
LoadedLimits(who) ==
    UNION {[some -> {LoadedRecord(n, 0) : n \in LoadedCounts}] : some \in SUBSET who}

\* A post loaded from pending_posts.json: its list of media ids is its own.
LoadedPost(user_id, media_ids, media_type, media_group_id, current_time, serial) ==
    [NewPost(user_id, media_ids, media_type, "c1", media_group_id, "m1",
             current_time, serial) EXCEPT !.shared = None]

\* The process starts: no handler runs, the sweep is about to scan, nothing
\* was sent.
InitTasks ==
    /\ now = 0
    /\ commands = {}
    /\ media_group_collector = <<>>
    /\ collector_order = <<>>
    /\ handlers = [h \in Handlers |-> IdleHandler]
    /\ callbacks = [c \in Callbacks |-> IdleCallback]
    /\ sweep = SleepingSweep(0)
    /\ channel = <<>>
    /\ review_msgs = {}
    /\ notices = {}
    /\ parts = [g \in GroupIds |-> NoParts]

\* No data files.
InitEmptyStore ==
    /\ pending_posts = <<>>
    /\ created = 0
    /\ hist = <<>>

\* ------------------------------------------------------------ inputs
Message(user, media_group_id, file_id, media_type, caption, message_id) ==
    [user |-> user, media_group_id |-> media_group_id, file_id |-> file_id,
     media_type |-> media_type, caption |-> caption, message_id |-> message_id]

\* Single media items sent by the users of `who`.
SingleMessages(who) == {Message(u, None, "f1", "photo", None, "m1") : u \in who}

\* Parts of the media groups of `groups`, sent by user u.
PartMessages(u, groups) ==
    {Message(u, g, f, "photo", None, "m1") : g \in groups, f \in {"f1", "f2"}}

\* The post ids a callback can name: those of the store and one that is not.
CallbackIds == DOMAIN pending_posts \cup {NoPostId}

\* ------------------------------------------------------------ resolve
\* Callbacks on a loaded store: u1's single photo, admitted one second before
\* the start, and u2's group of two videos, admitted at the start.
InitResolve ==
    /\ InitTasks
    /\ admins = OtherAdmins
    /\ user_limits =
           [u \in Submitters |->
               [LoadedRecord(1, IF u = "u1" THEN 0 - MS_PER_SECOND ELSE 0)
                   EXCEPT !.rejected_suggestions = 0]]
    /\ pending_posts =
           (PostId(0 - MS_PER_SECOND) :>
               LoadedPost("u1", <<"f1">>, "photo", None, 0 - MS_PER_SECOND, 1))
           @@ (PostId(0) :>
               LoadedPost("u2", <<"f1", "f2">>, "video", "g1", 0, 2))
    /\ created = 2
    /\ hist = <<NewHist, NewHist>>

NextResolve ==
    \/ \E c \in Callbacks, who \in {MAIN_ADMIN_ID, "adm", "u1"},
          action \in {"approve", "reject"}, id \in CallbackIds :
            CallbackStart(c, who, action, id)
    \/ \E c \in Callbacks, ok \in BOOLEAN : CallbackPublish(c, ok)
    \/ \E c \in Callbacks, ok \in BOOLEAN : CallbackNotifyUser(c, ok)
    \/ \E c \in Callbacks, ok \in BOOLEAN, sent \in BOOLEAN : CallbackFinish(c, ok, sent)
    \/ \E c \in Callbacks, ok \in BOOLEAN : CallbackReturn(c, ok)

SpecResolve == InitResolve /\ [][NextResolve]_vars

\* ------------------------------------------------------------ moderation
\* Single intakes by one user and callbacks by the main admin, over seconds and
\* over 10^9 ms, from empty data files.
InitModeration ==
    /\ InitTasks
    /\ InitEmptyStore
    /\ admins = {}
    /\ user_limits = <<>>

NextModeration ==
    \/ \E msg \in SingleMessages({"u1"}) : Receive("h1", msg)
    \/ SuggestSingle("h1")
    \/ ReplyAndReturn("h1")
    \/ \E ok \in BOOLEAN : ReplySubmitted("h1", ok)
    \/ \E a \in admin_ids, ok \in BOOLEAN : DispatchSingle("h1", a, ok)
    \/ \E action \in {"approve", "reject"}, id \in CallbackIds :
            CallbackStart("k1", MAIN_ADMIN_ID, action, id)
    \/ \E ok \in BOOLEAN : CallbackPublish("k1", ok)
    \/ \E ok \in BOOLEAN : CallbackNotifyUser("k1", ok)
    \/ \E ok \in BOOLEAN, sent \in BOOLEAN : CallbackFinish("k1", ok, sent)
    \/ \E ok \in BOOLEAN : CallbackReturn("k1", ok)
    \/ TickSecond(ModerationSecs)
    \/ TickEpoch

SpecModeration == InitModeration /\ [][NextModeration]_vars

\* ------------------------------------------------------------ quota
\* Single intakes and media groups of one user, handled by one coroutine at a
\* time and the sweep, over seconds and days, from a loaded quota record; every
\* send to Telegram succeeds.
InitQuota ==
    /\ InitTasks
    /\ InitEmptyStore
    /\ admins = {}
    /\ user_limits \in LoadedLimits({"u1"})

QuotaMessages ==
    SingleMessages({"u1"}) \cup {Message("u1", "g1", "f1", "photo", None, "m1")}

NextQuota ==
    \/ \E msg \in QuotaMessages : Receive("h1", msg)
    \/ SuggestSingle("h1")
    \/ SuggestPart("h1")
    \/ ReplyAndReturn("h1")
    \/ ReplySubmitted("h1", TRUE)
    \/ \E a \in admin_ids : DispatchSingle("h1", a, TRUE)
    \/ SweepScan
    \/ SweepLimitNotified
    \/ SweepUserNotified
    \/ \E a \in admin_ids : SweepDispatch(a, TRUE)
    \/ TickSecond(QuotaSecs)
    \/ TickDay

SpecQuota == InitQuota /\ [][NextQuota]_vars

\* ------------------------------------------------------------ race
\* The same, with two coroutines handling messages of the user at once, over
\* seconds: from no quota record, or from one that leaves room for one more
\* submission in the window and whose cooldown has passed.
InitRace ==
    /\ InitTasks
    /\ InitEmptyStore
    /\ admins = {}
    /\ user_limits \in
           {<<>>, [u \in {"u1"} |->
                     LoadedRecord(MAX_SUGGESTIONS_PER_DAY - 1, 0 - CooldownMs)]}

NextRace ==
    \/ \E msg \in QuotaMessages : Receive("h1", msg)
    \/ \E msg \in QuotaMessages : handlers["h1"].pc # "idle" /\ Receive("h2", msg)
    \/ \E h \in Handlers : SuggestSingle(h)
    \/ \E h \in Handlers : SuggestPart(h)
    \/ \E h \in Handlers : ReplyAndReturn(h)
    \/ \E h \in Handlers, ok \in BOOLEAN : ReplySubmitted(h, ok)
    \/ \E h \in Handlers, a \in admin_ids, ok \in BOOLEAN : DispatchSingle(h, a, ok)
    \/ SweepScan
    \/ SweepLimitNotified
    \/ SweepUserNotified
    \/ \E a \in admin_ids, ok \in BOOLEAN : SweepDispatch(a, ok)
    \/ TickSecond(RaceSecs)

SpecRace == InitRace /\ [][NextRace]_vars

\* ------------------------------------------------------------ groups
\* Media groups of one user, received by one coroutine and finalized by the
\* sweep, from empty data files.
InitGroups ==
    /\ InitTasks
    /\ InitEmptyStore
    /\ admins = {}
    /\ user_limits = <<>>

\* The parts u1 sends: two files of group g1 and one file of group g2.
GroupsMessages ==
    PartMessages("u1", {"g1"}) \cup {Message("u1", "g2", "f1", "photo", None, "m1")}

NextGroups ==
    \/ \E msg \in GroupsMessages : Receive("h1", msg)
    \/ SuggestPart("h1")
    \/ ReplyAndReturn("h1")
    \/ SweepScan
    \/ SweepLimitNotified
    \/ SweepUserNotified
    \/ \E a \in admin_ids, ok \in BOOLEAN : SweepDispatch(a, ok)
    \/ TickSecond(GroupsSecs)

SpecGroups == InitGroups /\ [][NextGroups]_vars

\* ------------------------------------------------------------ finalize
\* Parts of one media group received by one coroutine, the sweep, and calls of
\* handle_complete_media_group from a second coroutine at any moment, with two
\* reviewers.
InitFinalize ==
    /\ InitTasks
    /\ InitEmptyStore
    /\ admins = OtherAdmins
    /\ user_limits = <<>>

\* The parts u1 sends: one file of group g1, any number of times.
FinalizeMessages == {Message("u1", "g1", "f1", "photo", None, "m1")}

NextFinalize ==
    \/ \E msg \in FinalizeMessages : Receive("h1", msg)
    \/ SuggestPart("h1")
    \/ ReplyAndReturn("h1")
    \/ SweepScan
    \/ SweepUserNotified
    \/ \E a \in admin_ids, ok \in BOOLEAN : SweepDispatch(a, ok)
    \/ FinalizeCall("h2", "g1")
    \/ FinalizeReturn("h2")
    \/ FinalizeUserNotified("h2")
    \/ \E a \in admin_ids, ok \in BOOLEAN : FinalizeDispatch("h2", a, ok)
    \/ TickSecond(FinalizeSecs)

SpecFinalize == InitFinalize /\ [][NextFinalize]_vars

\* ------------------------------------------------------------ dispatch
\* Single intakes and media groups of one user, with two reviewers and sends
\* that succeed or raise.
InitDispatch ==
    /\ InitTasks
    /\ InitEmptyStore
    /\ admins = OtherAdmins
    /\ user_limits = <<>>

NextDispatch ==
    \/ \E msg \in QuotaMessages : Receive("h1", msg)
    \/ SuggestSingle("h1")
    \/ SuggestPart("h1")
    \/ ReplyAndReturn("h1")
    \/ \E ok \in BOOLEAN : ReplySubmitted("h1", ok)
    \/ \E a \in admin_ids, ok \in BOOLEAN : DispatchSingle("h1", a, ok)
    \/ SweepScan
    \/ SweepLimitNotified
    \/ SweepUserNotified
    \/ \E a \in admin_ids, ok \in BOOLEAN : SweepDispatch(a, ok)
    \/ TickSecond(DispatchSecs)

SpecDispatch == InitDispatch /\ [][NextDispatch]_vars

\* ------------------------------------------------------------ write failures
\* The two data files: save_user_limits writes "limits", save_pending_posts
\* writes "posts".  Either open()/json.dump can raise.
DataFiles == {"limits", "posts"}

\* Where a write raises: at open(file, "w"), which leaves the file as it was,
\* or at json.dump, after open() has truncated the file.
FailurePoints == {"open", "dump"}

\* pending_posts.json after open(PENDING_POSTS_FILE, "w") succeeded and
\* json.dump raised: the file is empty, no post of the store is in it.
truncate_pending_posts(posts) ==
    [id \in DOMAIN posts |-> [posts[id] EXCEPT !.saved = <<>>]]

\* handle_user_suggestion, a single item of an admitted user, when the write of
\* `file` raises.  record_suggestion and add_pending_post change their dict
\* before they save, so the change is made when the save raises; nothing on the
\* way catches the exception, which leaves the handler.  A post whose save
\* raised is in no file: its `saved` is empty; when json.dump raised, so is the
\* `saved` of every other post.
SuggestSingleWriteFails(h, file, at) ==
    LET m == handlers[h]
        post_id == PostId(now)
        post == NewPost(m.user, <<m.file_id>>, m.media_type, m.caption, None,
                        m.message_id, now, created + 1)
    IN  /\ m.pc = "set_commands"
        /\ ~m.is_admin
        /\ m.media_group_id = None
        /\ can_suggest(user_limits, m.user, now).allowed
        /\ created < MaxSubmissions
        /\ user_limits' = record_suggestion(user_limits, m.user, now)
        /\ IF file = "limits"
           THEN UNCHANGED <<pending_posts, histVars>>
           ELSE /\ pending_posts' =
                       LET posts == add_pending_post(pending_posts, post_id,
                                        [post EXCEPT !.saved = <<>>])
                       IN  IF at = "dump" THEN truncate_pending_posts(posts)
                           ELSE posts
                /\ created' = created + 1
                /\ hist' = Put(hist, created + 1, NewHist)
        /\ handlers' = [handlers EXCEPT ![h] = [m EXCEPT !.pc = "raised"]]
        /\ UNCHANGED <<clockVars, roleVars, groupVars, callbacks, sweep, outVars>>

\* The exception of a handler reaches the dispatcher, which logs it: the
\* coroutine ends and the user is sent nothing.
HandlerRaised(h) ==
    /\ handlers[h].pc = "raised"
    /\ handlers' = [handlers EXCEPT ![h] = IdleHandler]
    /\ UNCHANGED <<clockVars, roleVars, storeVars, groupVars, callbacks, sweep,
                   outVars, histVars>>

\* process_suggestion_action on a pending post when the write of `file` raises:
\* update_post_status has set the status (and, for "limits", saved it, and
\* record_suggestion_result has counted) when the exception reaches the outer
\* except, which answers "An error occurred. Please try again.".
\* record_suggestion_result writes "limits" only for a user who has a record.
\* When json.dump of "posts" raised, no post of the store is in the file.
CallbackStartWriteFails(c, from_user, action, post_id, file, at) ==
    LET post == get_pending_post(pending_posts, post_id)
        status == IF action = "approve" THEN "approved" ELSE "rejected"
        posts == update_post_status(pending_posts, post_id, status)
    IN  /\ callbacks[c].pc = "idle"
        /\ is_authorized(from_user)
        /\ post # NoPost
        /\ ~NotPending(post)
        /\ file = "limits" => post.user_id \in DOMAIN user_limits
        /\ IF file = "posts"
           THEN /\ pending_posts' = IF at = "dump"
                                    THEN truncate_pending_posts(posts)
                                    ELSE posts
                /\ user_limits' = user_limits
                /\ hist' = [hist EXCEPT ![post.serial].resolved = @ + 1]
           ELSE /\ pending_posts' = save_pending_posts(posts)
                /\ user_limits' = record_suggestion_result(user_limits, post.user_id,
                                                           action = "approve")
                /\ hist' = [hist EXCEPT
                       ![post.serial].resolved = @ + 1,
                       ![post.serial].counted =
                           IF post.user_id \in DOMAIN user_limits THEN @ + 1 ELSE @]
        /\ callbacks' = [callbacks EXCEPT ![c] =
               [IdleCallback EXCEPT
                   !.pc = "answered", !.from_user = from_user, !.action = action,
                   !.post_id = post_id, !.post = [post EXCEPT !.status = status],
                   !.answer = Answer("error", None)]]
        /\ UNCHANGED <<clockVars, roleVars, groupVars, handlers, sweep, outVars, created>>

\* Single intakes by one user, callbacks by the main admin and views of stored
\* posts, with writes of the data files that succeed or raise.
InitStorage ==
    /\ InitTasks
    /\ InitEmptyStore
    /\ admins = {}
    /\ user_limits = <<>>

NextStorage ==
    \/ \E msg \in SingleMessages({"u1"}) : Receive("h1", msg)
    \/ SuggestSingle("h1")
    \/ \E file \in DataFiles, at \in FailurePoints :
            SuggestSingleWriteFails("h1", file, at)
    \/ HandlerRaised("h1")
    \/ ReplyAndReturn("h1")
    \/ ReplySubmitted("h1", TRUE)
    \/ \E a \in admin_ids : DispatchSingle("h1", a, TRUE)
    \/ \E action \in {"approve", "reject"}, id \in CallbackIds :
            CallbackStart("k1", MAIN_ADMIN_ID, action, id)
    \/ \E action \in {"approve", "reject"}, id \in CallbackIds,
          file \in DataFiles, at \in FailurePoints :
            CallbackStartWriteFails("k1", MAIN_ADMIN_ID, action, id, file, at)
    \/ CallbackPublish("k1", TRUE)
    \/ CallbackNotifyUser("k1", TRUE)
    \/ \E sent \in BOOLEAN : CallbackFinish("k1", TRUE, sent)
    \/ \E ok \in BOOLEAN : CallbackReturn("k1", ok)
    \/ \E who \in {MAIN_ADMIN_ID, "u1"}, id \in CallbackIds :
            ViewPendingPost("k1", who, id)
    \/ \E ok \in BOOLEAN : ViewSent("k1", ok)
    \/ ViewAnswered("k1")
    \/ TickSecond(StorageSecs)

SpecStorage == InitStorage /\ [][NextStorage]_vars

\* ------------------------------------------------------------ parts
\* Parts of one media group of one user, received by one coroutine and finalized
\* by the sweep: file f1 with caption c1 or none, file f2 with caption c2 or none.
InitParts ==
    /\ InitTasks
    /\ InitEmptyStore
    /\ admins = {}
    /\ user_limits = <<>>

PartsMessages ==
    {Message("u1", "g1", "f1", "photo", c, "m1") : c \in {None, "c1"}}
        \cup {Message("u1", "g1", "f2", "photo", c, "m1") : c \in {None, "c2"}}

NextParts ==
    \/ \E msg \in PartsMessages : Receive("h1", msg)
    \/ SuggestPart("h1")
    \/ ReplyAndReturn("h1")
    \/ SweepScan
    \/ SweepUserNotified
    \/ \E a \in admin_ids : SweepDispatch(a, TRUE)
    \/ TickSecond(PartsSecs)

SpecParts == InitParts /\ [][NextParts]_vars

\* ------------------------------------------------------------ admin messages
\* What handle_admin_message sends to CHANNEL_ID for a single media item: the
\* watermarked photo carries the caption of the message; the fallback send of
\* the photo and the send of every other type carry the file id alone.  The
\* post is made from no submission: serial 0.
Direct(m, how) ==
    [media |-> <<m.file_id>>,
     caption |-> IF how = "watermarked" THEN m.caption ELSE None,
     serial |-> 0]

\* The outcomes of the channel send of handle_admin_message.
SendOutcomes(media_type) ==
    IF media_type = "photo" THEN {"watermarked", "plain", "failed"}
    ELSE {"plain", "failed"}

\* Mutant of the direct post: the branch is taken for every sender.
AdminSingleAnyone(h, how) ==
    LET m == handlers[h]
    IN  /\ m.pc = "set_commands"
        /\ m.media_group_id = None
        /\ how \in SendOutcomes(m.media_type)
        /\ Len(channel) < MaxPosts
        /\ channel' = IF how = "failed" THEN channel
                      ELSE Append(channel, Direct(m, how))
        /\ handlers' = [handlers EXCEPT ![h] =
               [m EXCEPT !.pc = IF how = "failed" THEN "reply_error"
                                ELSE "reply_posted"]]
        /\ UNCHANGED <<clockVars, roleVars, storeVars, groupVars, callbacks, sweep,
                       review_msgs, notices, histVars>>

\* handle_admin_message, a single media item: the send to the channel.  For a
\* photo a failure of the watermarked send is followed by the fallback send; a
\* failure of the last send is caught by the outer except.
AdminSingle(h, how) ==
    LET m == handlers[h]
    IN  /\ m.pc = "set_commands"
        /\ m.is_admin
        /\ m.media_group_id = None
        /\ how \in SendOutcomes(m.media_type)
        /\ Len(channel) < MaxPosts
        /\ channel' = IF how = "failed" THEN channel
                      ELSE Append(channel, Direct(m, how))
        /\ handlers' = [handlers EXCEPT ![h] =
               [m EXCEPT !.pc = IF how = "failed" THEN "reply_error"
                                ELSE "reply_posted"]]
        /\ UNCHANGED <<clockVars, roleVars, storeVars, groupVars, callbacks, sweep,
                       review_msgs, notices, histVars>>

\* The awaited reply of handle_admin_message is over (`ok`: it returned).
\* "Message posted successfully." is inside the try: when it raises, the outer
\* except awaits the reply "Error processing your message"; when it returns,
\* notify_main_admin follows, which catches its own exceptions, and the handler
\* ends.  The error reply is in the except clause: the handler ends after it,
\* returned or raised.
AdminReplied(h, ok) ==
    /\ handlers[h].pc \in {"reply_posted", "reply_error"}
    /\ handlers' = [handlers EXCEPT ![h] =
           IF ~ok /\ handlers[h].pc = "reply_posted"
           THEN [@ EXCEPT !.pc = "reply_error"]
           ELSE IdleHandler]
    /\ UNCHANGED <<clockVars, roleVars, storeVars, groupVars, callbacks, sweep,
                   outVars, histVars>>

\* handle_admin_message, a part of a media group.  With no buffer for the group
\* the handler first awaits its reply "Collecting media group... Will post when
\* complete."; otherwise it calls process_media_group (without message_id) and
\* returns.
AdminPart(h) ==
    LET m == handlers[h]
        g == m.media_group_id
    IN  /\ m.pc = "set_commands"
        /\ m.is_admin
        /\ g # None
        /\ PartsReceived < MaxParts
        /\ UNCHANGED <<clockVars, roleVars, storeVars, callbacks, sweep, outVars,
                       histVars>>
        /\ IF g \notin DOMAIN media_group_collector
           THEN /\ handlers' = [handlers EXCEPT ![h].pc = "admin_collecting"]
                /\ UNCHANGED groupVars
           ELSE /\ media_group_collector' =
                       process_media_group(media_group_collector, m.user, g,
                           m.media_type, m.file_id, None, m.caption, now)
                /\ collector_order' = OrderAfterPart(collector_order, g)
                /\ parts' = [parts EXCEPT ![g] =
                       NoteCaption(NotePart(@, m.file_id, now, FALSE), m.caption)]
                /\ handlers' = [handlers EXCEPT ![h] = IdleHandler]

\* The reply "Collecting media group..." returned: process_media_group, then the
\* return.  When the reply raised, the part is in no buffer and the outer except
\* awaits the reply "Error processing your message".
AdminCollected(h, ok) ==
    LET m == handlers[h]
        g == m.media_group_id
    IN  /\ m.pc = "admin_collecting"
        /\ handlers' = [handlers EXCEPT ![h] =
               IF ok THEN IdleHandler ELSE [m EXCEPT !.pc = "reply_error"]]
        /\ UNCHANGED <<clockVars, roleVars, storeVars, callbacks, sweep, outVars,
                       histVars>>
        /\ IF ok
           THEN /\ media_group_collector' =
                       process_media_group(media_group_collector, m.user, g,
                           m.media_type, m.file_id, None, m.caption, now)
                /\ collector_order' = OrderAfterPart(collector_order, g)
                /\ parts' = [parts EXCEPT ![g] =
                       NoteCaption(NotePart(@, m.file_id, now,
                                       g \notin DOMAIN media_group_collector),
                                   m.caption)]
           ELSE UNCHANGED groupVars

\* The main admin and one more admin send single media items and the parts of
\* two media groups; the sweep finalizes the buffers.
InitAdmin ==
    /\ InitTasks
    /\ InitEmptyStore
    /\ admins = OtherAdmins
    /\ user_limits = <<>>

AdminMessages ==
    {Message("adm", None, "f1", t, "c1", "m1") : t \in MediaTypes}
        \cup {Message("adm", "g1", f, "photo", None, "m1") : f \in {"f1", "f2"}}
        \cup {Message("adm", "g2", "f1", "photo", None, "m1")}

NextAdmin ==
    \/ \E msg \in AdminMessages : Receive("h1", msg)
    \/ \E how \in {"watermarked", "plain", "failed"} : AdminSingle("h1", how)
    \/ \E ok \in BOOLEAN : AdminReplied("h1", ok)
    \/ AdminPart("h1")
    \/ \E ok \in BOOLEAN : AdminCollected("h1", ok)
    \/ SweepScan
    \/ SweepLimitNotified
    \/ SweepUserNotified
    \/ \E a \in admin_ids, ok \in BOOLEAN : SweepDispatch(a, ok)
    \/ TickSecond(AdminSecs)

SpecAdmin == InitAdmin /\ [][NextAdmin]_vars

\* ------------------------------------------------------------ admin commands
Command(name, from_user, arg) == [name |-> name, from |-> from_user, arg |-> arg]

\* remove_admin: for the main admin, load_admins, del admins[admin_id] when the
\* id is in the dict, and save_admins, with no await before the save; everyone
\* else is told that only the main admin can remove admins.
RemoveAdmin(from_user, admin_id) ==
    /\ admins' = IF from_user = MAIN_ADMIN_ID /\ admin_id \in admins
                 THEN admins \ {admin_id}
                 ELSE admins
    /\ commands' = commands \cup {Command("remove_admin", from_user, admin_id)}
    /\ UNCHANGED <<clockVars, storeVars, groupVars, taskVars, outVars, histVars>>

\* add_admin: anyone but the main admin is answered "Error adding admin. Please
\* try again later."; for the main admin the function has no statement to run.
AddAdmin(from_user, user_id) ==
    /\ commands' = commands \cup {Command("add_admin", from_user, user_id)}
    /\ UNCHANGED <<clockVars, admins, storeVars, groupVars, taskVars, outVars,
                   histVars>>

\* Admin commands, messages and callbacks on a loaded store: u1's single photo,
\* admitted one second before the start and delivered to both reviewers in an
\* earlier run.
InitRoles ==
    /\ now = 0
    /\ commands = {}
    /\ media_group_collector = <<>>
    /\ collector_order = <<>>
    /\ handlers = [h \in Handlers |-> IdleHandler]
    /\ callbacks = [c \in Callbacks |-> IdleCallback]
    /\ sweep = SleepingSweep(0)
    /\ channel = <<>>
    /\ review_msgs = {<<a, PostId(0 - MS_PER_SECOND)>> : a \in Identities \ Submitters}
    /\ notices = {}
    /\ parts = [g \in GroupIds |-> NoParts]
    /\ admins = OtherAdmins
    /\ user_limits = "u1" :> [LoadedRecord(1, 0 - MS_PER_SECOND)
                                 EXCEPT !.rejected_suggestions = 0]
    /\ pending_posts =
           PostId(0 - MS_PER_SECOND) :>
               LoadedPost("u1", <<"f1">>, "photo", None, 0 - MS_PER_SECOND, 1)
    /\ created = 1
    /\ hist = <<NewHist>>

RolesMessages ==
    {Message("adm", None, "f2", "photo", "c2", "m1"),
     Message("u1", None, "f3", "photo", None, "m1")}

NextRoles ==
    \/ RemoveAdmin(MAIN_ADMIN_ID, "adm")
    \/ RemoveAdmin("u1", "adm")
    \/ RemoveAdmin(MAIN_ADMIN_ID, MAIN_ADMIN_ID)
    \/ \E who \in {MAIN_ADMIN_ID, "adm"} : AddAdmin(who, "u1")
    \/ \E msg \in RolesMessages : Receive("h1", msg)
    \/ \E how \in {"watermarked", "plain", "failed"} : AdminSingle("h1", how)
    \/ \E ok \in BOOLEAN : AdminReplied("h1", ok)
    \/ SuggestSingle("h1")
    \/ ReplyAndReturn("h1")
    \/ ReplySubmitted("h1", TRUE)
    \/ \E a \in admin_ids : DispatchSingle("h1", a, TRUE)
    \/ \E who \in {MAIN_ADMIN_ID, "adm", "u1"}, action \in {"approve", "reject"},
          id \in CallbackIds :
            CallbackStart("k1", who, action, id)
    \/ \E ok \in BOOLEAN : CallbackPublish("k1", ok)
    \/ CallbackNotifyUser("k1", TRUE)
    \/ \E sent \in BOOLEAN : CallbackFinish("k1", TRUE, sent)
    \/ \E ok \in BOOLEAN : CallbackReturn("k1", ok)
    \/ \E who \in {MAIN_ADMIN_ID, "adm"}, id \in DOMAIN pending_posts :
            ViewPendingPost("k1", who, id)
    \/ ViewSent("k1", TRUE)
    \/ ViewAnswered("k1")

SpecRoles == InitRoles /\ [][NextRoles]_vars

\* ============================================================ claims
Decision(action) == IF action = "approve" THEN "approved" ELSE "rejected"

\* The number of channel posts made from creation `serial`.
ChannelPosts(serial) ==
    Cardinality({i \in 1..Len(channel) : channel[i].serial = serial})

\* C1: whatever callbacks run on a submission, in whatever order and by
\* whichever reviewers, it undergoes one status transition (none while it is
\* pending), it is on the channel at most once and only when approved, its
\* submitter's approved and rejected counters were incremented once in total, and
\* its submitter was sent at most one decision notice.
C1_ResolveOnce ==
    \A id \in DOMAIN pending_posts :
        LET post == pending_posts[id]
            h == hist[post.serial]
            rec == user_limits[post.user_id]
            resolved == IF post.status = "pending" THEN 0 ELSE 1
        IN  /\ h.resolved = resolved
            /\ h.counted = resolved
            /\ rec.approved_suggestions = (IF post.status = "approved" THEN 1 ELSE 0)
            /\ rec.rejected_suggestions = (IF post.status = "rejected" THEN 1 ELSE 0)
            /\ ChannelPosts(post.serial) <= (IF post.status = "approved" THEN 1 ELSE 0)
            /\ h.published = ChannelPosts(post.serial)
            /\ h.noticed <= resolved

\* Two callbacks ran on one submission: one approved it, published it, notified
\* the submitter and ended; the other was told it was already approved.
C1_Witness ==
    \E c1, c2 \in Callbacks :
        /\ callbacks[c1].pc = "answered" /\ callbacks[c1].answer.kind = "done"
        /\ callbacks[c1].action = "approve"
        /\ callbacks[c2].pc = "answered" /\ callbacks[c2].answer.kind = "already"
        /\ callbacks[c2].post_id = callbacks[c1].post_id
        /\ ChannelPosts(callbacks[c1].post.serial) = 1
        /\ hist[callbacks[c1].post.serial].noticed = 1

\* Callback c starts in this step, from an authorized reviewer, on a stored post.
StartsOnStored(c) ==
    /\ callbacks[c].pc = "idle"
    /\ callbacks'[c].pc # "idle"
    /\ callbacks'[c].answer.kind # "unauthorized"
    /\ callbacks'[c].post_id \in DOMAIN pending_posts

\* C2: of the callbacks on one submission, the first to pass the pending check
\* sets the status to its decision, and the status stays that; a callback that
\* finds the submission resolved is answered "already <status>" and changes
\* neither the store, the quota records nor the channel.
C2_FirstDecisionWins ==
    [][/\ \A c \in Callbacks :
            StartsOnStored(c) =>
                LET id == callbacks'[c].post_id
                IN  IF pending_posts[id].status = "pending"
                    THEN pending_posts'[id].status = Decision(callbacks'[c].action)
                    ELSE /\ callbacks'[c].answer =
                                Answer("already", pending_posts[id].status)
                         /\ UNCHANGED <<pending_posts, user_limits, channel>>
       /\ \A id \in DOMAIN pending_posts :
            pending_posts[id].status # "pending" =>
                pending_posts'[id].status = pending_posts[id].status
      ]_vars

\* While the approving callback of one reviewer awaits the channel send or the
\* notice, the rejecting callback of another reviewer on the same submission has
\* been answered "already approved".
C2_Witness ==
    \E c1, c2 \in Callbacks :
        /\ callbacks[c1].pc \in {"publish", "notify_user"}
        /\ callbacks[c1].action = "approve"
        /\ callbacks[c2].pc = "answered"
        /\ callbacks[c2].action = "reject"
        /\ callbacks[c2].from_user # callbacks[c1].from_user
        /\ callbacks[c2].post_id = callbacks[c1].post_id
        /\ callbacks[c2].answer = Answer("already", "approved")
        /\ pending_posts[callbacks[c1].post_id].status = "approved"

\* C3: a stored submission's status only moves pending -> approved or
\* pending -> rejected: once the record under an id is approved or rejected, no
\* step (intake, finalization, callback) changes the status under that id.
C3_StatusTerminal ==
    [][\A id \in DOMAIN pending_posts :
          pending_posts[id].status # "pending" =>
              pending_posts'[id].status = pending_posts[id].status
      ]_vars

\* C4: every creation uses an id that is not a key of the store: the store has
\* one more record after it and no stored record is replaced.
C4_FreshId ==
    [][created' # created =>
          /\ Cardinality(DOMAIN pending_posts') = Cardinality(DOMAIN pending_posts) + 1
          /\ \A id \in DOMAIN pending_posts :
                pending_posts'[id].serial = pending_posts[id].serial
      ]_vars

\* User u has a submission admitted in this step.
Admits(u) ==
    /\ u \in DOMAIN user_limits'
    /\ (u \in DOMAIN user_limits =>
            user_limits'[u].total_suggestions # user_limits[u].total_suggestions)

\* C5: for every user, suggestions_today is at most the daily cap, and no step
\* admits a submission of a user whose counter is at the cap.
C5_DailyCap ==
    /\ [](\A u \in DOMAIN user_limits :
            user_limits[u].suggestions_today <= MAX_SUGGESTIONS_PER_DAY)
    /\ [][\A u \in DOMAIN user_limits :
            Admits(u) => user_limits[u].suggestions_today < MAX_SUGGESTIONS_PER_DAY
         ]_vars

\* A user reached the cap by a submission admitted in this run, and a further
\* single item was refused with the daily-limit reason.
C5_Witness ==
    /\ created >= 1
    /\ "u1" \in DOMAIN user_limits
    /\ user_limits["u1"].suggestions_today = MAX_SUGGESTIONS_PER_DAY
    /\ \E id \in DOMAIN pending_posts :
          pending_posts[id].timestamp = user_limits["u1"].last_suggestion_time
    /\ handlers["h1"].pc = "reply_limit"
    /\ handlers["h1"].reason.kind = "daily"

\* C6: the cap is per rolling 24-hour window: a user at the cap is allowed again
\* by can_suggest once more than 24 hours have passed since day_start and the
\* cooldown has elapsed.
C6_CapLiftsAfterWindow ==
    \A u \in DOMAIN user_limits :
        (/\ DailyCapReached(user_limits[u])
         /\ WindowRolledOver(user_limits[u], now)
         /\ ~CooldownActive(user_limits[u], now))
        => can_suggest(user_limits, u, now).allowed

\* Handler h makes its rate-limiter check for a single item in this step.
ChecksSingle(h) ==
    /\ handlers[h].pc = "set_commands"
    /\ ~handlers[h].is_admin
    /\ handlers[h].media_group_id = None
    /\ handlers'[h].pc # "set_commands"

\* The sweep makes its rate-limiter check for group g in this step.
ChecksGroup(g) ==
    /\ g \in DOMAIN media_group_collector
    /\ ~media_group_collector[g].complete
    /\ g \in DOMAIN media_group_collector'
    /\ media_group_collector'[g].complete

InCooldown(u) ==
    u \in DOMAIN user_limits /\ CooldownActive(user_limits[u], now)

\* The admission of u recorded in this step is at least the cooldown after the
\* last one recorded before it.
AdmittedApart(u) ==
    (Admits(u) /\ u \in DOMAIN user_limits) =>
        user_limits'[u].last_suggestion_time
            - user_limits[u].last_suggestion_time >= CooldownMs

\* C7, whatever the user's count: two admissions of a user are at least the
\* cooldown apart, and an attempt made less than the cooldown after
\* last_suggestion_time is refused with the "wait" reason and creates no
\* submission.
C7_CooldownWaitReason ==
    [][/\ \A u \in Submitters : AdmittedApart(u)
       /\ \A h \in Handlers :
            ChecksSingle(h) /\ InCooldown(handlers[h].user) =>
                /\ handlers'[h].pc = "reply_limit"
                /\ handlers'[h].reason.kind = "wait"
                /\ created' = created
       /\ \A g \in GroupIds :
            ChecksGroup(g) /\ InCooldown(media_group_collector[g].user_id) =>
                /\ sweep'.pc = "limit_notify"
                /\ sweep'.reason.kind = "wait"
                /\ created' = created
      ]_vars

\* The reason can_suggest gives a user in cooldown: the daily-limit reason when
\* the user is also at the cap (that test comes first), the "wait" reason
\* otherwise.
CooldownReason(u) ==
    IF DailyCapReached(user_limits[u]) THEN "daily" ELSE "wait"

\* C7, by the user's count: two admissions of a user are at least the cooldown
\* apart, and an attempt made less than the cooldown after last_suggestion_time
\* is refused and creates no submission; the reason is the "wait" reason unless
\* the user is at the daily cap, and the daily-limit reason then.
C7_CooldownRefuses ==
    [][/\ \A u \in Submitters : AdmittedApart(u)
       /\ \A h \in Handlers :
            ChecksSingle(h) /\ InCooldown(handlers[h].user) =>
                /\ handlers'[h].pc = "reply_limit"
                /\ handlers'[h].reason.kind = CooldownReason(handlers[h].user)
                /\ created' = created
       /\ \A g \in GroupIds :
            ChecksGroup(g) /\ InCooldown(media_group_collector[g].user_id) =>
                /\ sweep'.pc = "limit_notify"
                /\ sweep'.reason.kind = CooldownReason(media_group_collector[g].user_id)
                /\ created' = created
      ]_vars

\* After a submission admitted in this run, a media group of the same user was
\* finalized less than the cooldown later and refused with the "wait" reason.
C7_Witness ==
    /\ created >= 1
    /\ sweep.pc = "limit_notify"
    /\ sweep.reason.kind = "wait"
    /\ now - user_limits["u1"].last_suggestion_time < CooldownMs
    /\ \E id \in DOMAIN pending_posts :
          pending_posts[id].timestamp = user_limits["u1"].last_suggestion_time

\* C8: under any interleaving of the handlers of one user, a submission is
\* admitted only in a step whose starting state passes can_suggest for that
\* user: the check and record_suggestion are one step, so two concurrent
\* submissions never both pass when there is room for one.
C8_CheckAndRecordAtomic ==
    [][\A u \in Submitters :
          Admits(u) =>
              /\ can_suggest(user_limits, u, now).allowed
              /\ user_limits'[u].last_suggestion_time = now
      ]_vars

\* Two handlers run for the same user at once: one was admitted and is at its
\* reply, the other was refused.
C8_Witness ==
    /\ handlers["h1"].user = handlers["h2"].user
    /\ {handlers["h1"].pc, handlers["h2"].pc} = {"reply_submitted", "reply_limit"}
    /\ \E h \in Handlers :
          /\ handlers[h].pc = "reply_submitted"
          /\ handlers[h].post_id \in DOMAIN pending_posts
          /\ pending_posts[handlers[h].post_id].timestamp = now

\* The distinct elements of a sequence, in the order of their first occurrence.
RECURSIVE Dedup(_)
Dedup(s) ==
    IF s = <<>> THEN <<>>
    ELSE LET rest == Dedup(SubSeq(s, 1, Len(s) - 1))
             x == s[Len(s)]
         IN  IF Contains(rest, x) THEN rest ELSE Append(rest, x)

\* The stored submissions made from group g.
GroupPosts(g) == {id \in DOMAIN pending_posts : pending_posts[id].media_group_id = g}

\* The finalization of g has begun or has ended.
Finalized(g) ==
    g \notin DOMAIN media_group_collector \/ media_group_collector[g].complete

\* C9: for a group whose parts each came less than the quiet period after the
\* one before and whose user the rate limiter admitted, at most one submission
\* is ever created, a finalized group has exactly one, and its media_ids are the
\* distinct file ids of the parts in arrival order.
C9_TightGroupOneSubmission ==
    \A g \in GroupIds :
        (/\ Len(parts[g].files) > 0
         /\ parts[g].loose = 0
         /\ parts[g].refused = 0)
        => /\ parts[g].submissions <= 1
           /\ Cardinality(GroupPosts(g)) = parts[g].submissions
           /\ Finalized(g) => parts[g].submissions = 1
           /\ \A id \in GroupPosts(g) :
                 MediaIds(pending_posts[id]) = Dedup(parts[g].files)

\* Three parts of g1, two distinct files, came within the quiet period; the
\* finalization has ended and the one submission holds both files in order.
C9_Witness ==
    /\ Len(parts["g1"].files) = MaxParts
    /\ parts["g1"].loose = 0
    /\ parts["g1"].submissions = 1
    /\ "g1" \notin DOMAIN media_group_collector
    /\ \E id \in GroupPosts("g1") :
          /\ Len(pending_posts[id].media_ids) = 2
          /\ pending_posts[id].media_ids[1] = parts["g1"].files[1]
          /\ pending_posts[id].media_ids[1] # pending_posts[id].media_ids[2]

\* C10: when exactly one part of a group came more than the quiet period after
\* the one before it (part n+1), all others came within it, the rate limiter
\* refused nothing, and the group's buffers are all finalized and deleted, two
\* submissions were made: one with parts 1..n and one starting with part n+1.
C10_LatePartSecondSubmission ==
    \A g \in GroupIds :
        (/\ Len(parts[g].cuts) = 1
         /\ parts[g].loose = 1
         /\ parts[g].refused = 0
         /\ g \notin DOMAIN media_group_collector
         /\ sweep.pc = "sleep")
        => LET n == parts[g].cuts[1] - 1
           IN  /\ parts[g].submissions = 2
               /\ \E a, b \in GroupPosts(g) :
                     /\ MediaIds(pending_posts[a])
                            = Dedup(SubSeq(parts[g].files, 1, n))
                     /\ MediaIds(pending_posts[b])[1] = parts[g].files[n + 1]

\* A submission is created from the buffer of group g in this step.
CreatesFrom(g) == parts'[g].submissions > parts[g].submissions

\* C11: a submission is created from a group buffer only when the group is
\* quiet: in the step that creates it, more than the quiet period has passed
\* since the buffer's last_update.
C11_QuietAtCreation ==
    [][\A g \in GroupIds :
          CreatesFrom(g) =>
              now - media_group_collector[g].last_update > QuietMs
      ]_vars

\* C12: finalization is idempotent per buffer, whatever calls of
\* handle_complete_media_group are made and however they interleave: the buffers
\* of a group made no more submissions than there were buffers, each buffer was
\* finalized (admitted or refused) at most once, the user's quota was charged
\* once per submission, and each buffer was delivered to each reviewer at most
\* once.
C12_FinalizeOnce ==
    \A g \in GroupIds :
        /\ parts[g].submissions + parts[g].refused <= parts[g].buffers
        /\ parts[g].dispatched <= parts[g].submissions * Cardinality(admin_ids)
        /\ \A u \in DOMAIN user_limits :
              user_limits[u].total_suggestions = created

\* The sweep finalized a buffer, created its one submission and is delivering
\* it, and a second call on the same buffer returned at once.
C12_Witness ==
    /\ sweep.pc = "dispatch"
    /\ sweep.group = "g1"
    /\ handlers["h2"].pc = "finalize_complete"
    /\ parts["g1"].buffers = 1
    /\ parts["g1"].submissions = 1

\* handle_complete_media_group is running for group g: the sweep is at one of
\* its awaits.
Finalizing(g) ==
    /\ sweep.group = g
    /\ sweep.pc \in {"limit_notify", "notify_user", "dispatch"}

\* C13: a finalized buffer is removed from media_group_collector.  The only
\* deletion is the last statement of handle_complete_media_group and a later
\* call on a buffer marked complete returns at once, so the buffer is removed
\* eventually exactly when it is gone once the call is over: a buffer marked
\* complete exists only while its finalization runs.
C13_FinalizedBufferRemoved ==
    \A g \in DOMAIN media_group_collector :
        media_group_collector[g].complete => Finalizing(g)

\* C14: the dispatch of a new submission to the reviewers goes on after a
\* failed send: the loop over the reviewers, in the intake handler and in the
\* finalization, is left only after the send to the last reviewer, and the
\* failure ends neither the handler nor the sweep.
C14_DispatchReachesAll ==
    [][/\ \A h \in Handlers :
            (handlers[h].pc = "dispatch" /\ handlers'[h].pc # "dispatch")
                => Cardinality(handlers[h].todo) = 1
       /\ (sweep.pc = "dispatch" /\ sweep'.pc # "dispatch")
                => Cardinality(sweep.todo) = 1 /\ sweep'.pc # "dead"
      ]_vars

\* C15: the sweep runs as long as the process: whatever send failed in an
\* earlier finalization, the task has not ended while a buffer waits to be
\* finalized (only the sweep finalizes buffers, so a buffer that waits when the
\* task has ended is never finalized, however long it stays quiet).
C15_SweepRunsForever ==
    ~(/\ sweep.pc = "dead"
      /\ \E g \in DOMAIN media_group_collector : ~media_group_collector[g].complete)

\* C16: once the approve callback of a submission is past its channel send, a
\* stored status of approved means the submission is on the channel: no
\* submission is approved, never published, and (its status no longer pending)
\* closed to a further approval.
C16_ApprovedIsPublished ==
    \A id \in DOMAIN pending_posts :
        LET post == pending_posts[id]
            approving == \E c \in Callbacks : /\ callbacks[c].pc = "publish"
                                              /\ callbacks[c].post_id = id
        IN  (post.status = "approved" /\ ~approving) => ChannelPosts(post.serial) >= 1

\* Callback c rejects in this step: it starts, from an authorized reviewer,
\* with action reject on a stored pending post.
RejectsPending(c) ==
    /\ StartsOnStored(c)
    /\ callbacks'[c].action = "reject"
    /\ pending_posts[callbacks'[c].post_id].status = "pending"

\* The rejection notice of a post: to its submitter, as a reply to the stored
\* original_message_id.
RejectionNotice(post) ==
    [to |-> post.user_id, decision |-> "rejected",
     reply_to |-> post.original_message_id, serial |-> post.serial]

\* C17: a reject of pending submission S of user U by an authorized reviewer
\* sets S's status to rejected, adds exactly one to U's rejected_suggestions and
\* leaves approved_suggestions as it was; the callback sends nothing to the
\* channel, no rejected submission is on the channel, and what the callback
\* sends U is the rejection notice, as a reply to S's original_message_id.
C17_RejectPending ==
    [][\A c \in Callbacks :
        /\ RejectsPending(c) =>
             LET id == callbacks'[c].post_id
                 u == pending_posts[id].user_id
             IN  /\ pending_posts'[id].status = "rejected"
                 /\ user_limits'[u].rejected_suggestions =
                        user_limits[u].rejected_suggestions + 1
                 /\ user_limits'[u].approved_suggestions =
                        user_limits[u].approved_suggestions
                 /\ channel' = channel
                 /\ callbacks'[c].pc = "notify_user"
        /\ (callbacks[c].action = "reject" /\ callbacks'[c] # callbacks[c]) =>
             /\ channel' = channel
             /\ \A id \in DOMAIN pending_posts' :
                    pending_posts'[id].status = "rejected" =>
                        \A i \in 1..Len(channel') :
                            channel'[i].serial # pending_posts'[id].serial
             /\ callbacks[c].pc = "notify_user" =>
                    /\ callbacks'[c].pc = "edit"
                    /\ notices' \in {notices,
                                     notices \cup {RejectionNotice(callbacks[c].post)}}
      ]_vars

\* A reject ran to its end on u1's pending photo: the photo is stored rejected,
\* u1 has one rejection more and no approval, the channel is empty, and u1 holds
\* the notice, a reply to the submission's message.
C17_Witness ==
    \E c \in Callbacks :
        /\ callbacks[c].pc = "answered" /\ callbacks[c].answer.kind = "done"
        /\ callbacks[c].action = "reject"
        /\ callbacks[c].post.user_id = "u1"
        /\ pending_posts[callbacks[c].post_id].status = "rejected"
        /\ user_limits["u1"].rejected_suggestions = 1
        /\ user_limits["u1"].approved_suggestions = 0
        /\ channel = <<>>
        /\ RejectionNotice(callbacks[c].post) \in notices
        /\ callbacks[c].post.original_message_id = "m1"

\* A counter of user u's record, 0 for a user without a record.
CountOf(limits, u, field) == IF u \in DOMAIN limits THEN limits[u][field] ELSE 0

\* C18: when a non-admin user who passes the rate-limiter check sends a single
\* media item, the step that admits it creates one pending submission of that
\* user with a one-element media_ids and adds one to the user's
\* suggestions_today and total_suggestions; and when the handler ends, the
\* submission has been sent to every current reviewer.
C18_SingleIntake ==
    [][\A h \in Handlers :
        /\ (ChecksSingle(h) /\ can_suggest(user_limits, handlers[h].user, now).allowed) =>
             LET u == handlers[h].user
                 id == handlers'[h].post_id
             IN  /\ created' = created + 1
                 /\ id \in DOMAIN pending_posts'
                 /\ \A k \in DOMAIN pending_posts' :
                        k # id => k \in DOMAIN pending_posts
                 /\ pending_posts'[id].status = "pending"
                 /\ pending_posts'[id].user_id = u
                 /\ pending_posts'[id].media_ids = <<handlers[h].file_id>>
                 /\ pending_posts'[id].serial = created'
                 /\ CountOf(user_limits', u, "suggestions_today") =
                        CountOf(user_limits, u, "suggestions_today") + 1
                 /\ CountOf(user_limits', u, "total_suggestions") =
                        CountOf(user_limits, u, "total_suggestions") + 1
        /\ (handlers[h].pc \in {"reply_submitted", "dispatch"}
                /\ handlers'[h].pc = "idle") =>
             \A a \in admin_ids : <<a, handlers[h].post_id>> \in review_msgs'
      ]_vars

\* User u has a window and the present moment is inside it: at most 24 hours
\* after day_start.
InWindow(u) ==
    /\ u \in DOMAIN user_limits
    /\ now - user_limits[u].day_start <= DayMs

\* The attempt checked in this step for user u, a single item or a group, is
\* refused.
Refuses(u) ==
    \/ \E h \in Handlers : /\ ChecksSingle(h) /\ handlers[h].user = u
                           /\ handlers'[h].pc = "reply_limit"
    \/ \E g \in GroupIds : /\ ChecksGroup(g) /\ media_group_collector[g].user_id = u
                           /\ sweep'.pc = "limit_notify"

\* C19: suggestions_today counts the admitted submissions of the window: an
\* admission inside the window adds one to it and leaves day_start, an admission
\* with no window or after it starts a window at that moment with a count of
\* one, and nothing else changes either; and an attempt made inside the window
\* and after the cooldown is refused only if the count is at the daily cap.
C19_WindowCount ==
    [][\A u \in Submitters :
        /\ Admits(u) =>
             IF InWindow(u)
             THEN /\ user_limits'[u].suggestions_today =
                        user_limits[u].suggestions_today + 1
                  /\ user_limits'[u].day_start = user_limits[u].day_start
             ELSE /\ user_limits'[u].suggestions_today = 1
                  /\ user_limits'[u].day_start = now
        /\ (u \in DOMAIN user_limits /\ ~Admits(u)) =>
             /\ u \in DOMAIN user_limits'
             /\ user_limits'[u].suggestions_today = user_limits[u].suggestions_today
             /\ user_limits'[u].day_start = user_limits[u].day_start
        /\ (InWindow(u) /\ ~InCooldown(u) /\ Refuses(u)) =>
             user_limits[u].suggestions_today >= MAX_SUGGESTIONS_PER_DAY
      ]_vars

\* A user with no record was admitted twice, the second time exactly 24 hours
\* after the first, at the end of the window the first one started:
\* suggestions_today is 2.
C19_Witness ==
    /\ created = 2
    /\ "u1" \in DOMAIN user_limits
    /\ user_limits["u1"].total_suggestions = 2
    /\ user_limits["u1"].suggestions_today = 2
    /\ user_limits["u1"].last_suggestion_time - user_limits["u1"].day_start = DayMs

\* Handler h takes a part of a media group through intake in this step.
ChecksPart(h) ==
    /\ handlers[h].pc = "set_commands"
    /\ ~handlers[h].is_admin
    /\ handlers[h].media_group_id # None
    /\ handlers'[h].pc # "set_commands"

\* C20: intake checks the rate limiter first, for grouped content too: a
\* media-group part of a user whom can_suggest does not allow is answered with
\* the limit reason and added to no group buffer.
C20_PartCheckedFirst ==
    [][\A h \in Handlers :
        (ChecksPart(h) /\ ~can_suggest(user_limits, handlers[h].user, now).allowed) =>
            /\ handlers'[h].pc = "reply_limit"
            /\ handlers'[h].reason = can_suggest(user_limits, handlers[h].user, now).reason
            /\ media_group_collector' = media_group_collector
      ]_vars

\* The count of user u's window at this moment: suggestions_today inside the
\* window, 0 for a user without a record or after the window.
WindowCount(u) ==
    IF InWindow(u) THEN user_limits[u].suggestions_today ELSE 0

\* C21: the quota is charged per finalized group and not per part: a step that
\* buffers a part leaves user_limits as it is; the finalization of a group,
\* whatever the number of its parts, checks the rate limiter at that moment and,
\* when admitted, creates one submission and adds exactly one to the user's
\* total_suggestions and to the count of the user's window, and when refused
\* leaves user_limits as it is; and user_limits changes in no other step.
C21_ChargedPerGroup ==
    [][/\ \A h \in Handlers : ChecksPart(h) => user_limits' = user_limits
       /\ \A g \in GroupIds :
            ChecksGroup(g) =>
                LET u == media_group_collector[g].user_id
                IN  IF can_suggest(user_limits, u, now).allowed
                    THEN /\ created' = created + 1
                         /\ CountOf(user_limits', u, "total_suggestions") =
                                CountOf(user_limits, u, "total_suggestions") + 1
                         /\ user_limits'[u].suggestions_today = WindowCount(u) + 1
                         /\ user_limits'[u].last_suggestion_time = now
                         /\ \A v \in DOMAIN user_limits :
                                v # u => user_limits'[v] = user_limits[v]
                    ELSE /\ user_limits' = user_limits
                         /\ created' = created
                         /\ sweep'.pc = "limit_notify"
       /\ user_limits' # user_limits =>
            \/ \E g \in GroupIds : ChecksGroup(g)
            \/ \E h \in Handlers : ChecksSingle(h)
      ]_vars

\* A group of two parts was finalized and admitted: one submission holds both
\* files and the user's counters stand at 1.
C21_Witness ==
    /\ created = 1
    /\ Len(parts["g1"].files) >= 2
    /\ parts["g1"].submissions = 1
    /\ \E id \in GroupPosts("g1") : Len(MediaIds(pending_posts[id])) = 2
    /\ user_limits["u1"].suggestions_today = 1
    /\ user_limits["u1"].total_suggestions = 1

\* C22: a refusal by the rate limiter, of a single item or of a group at its
\* finalization, creates no submission and leaves the submission store and the
\* quota records as they are (can_suggest only reads); the refused handler or
\* finalization contacts no reviewer on its way out; and reviewers are only
\* ever sent stored submissions.
C22_RefusalNoEffect ==
    [][/\ \A u \in Submitters :
            Refuses(u) =>
                /\ created' = created
                /\ pending_posts' = pending_posts
                /\ user_limits' = user_limits
                /\ review_msgs' = review_msgs
       /\ \A h \in Handlers :
            (handlers[h].pc = "reply_limit" /\ handlers'[h] # handlers[h]) =>
                /\ handlers'[h] = IdleHandler
                /\ UNCHANGED <<created, pending_posts, user_limits, review_msgs>>
       /\ (sweep.pc = "limit_notify" /\ sweep' # sweep) =>
                review_msgs' = review_msgs
       /\ \A r \in review_msgs' : r[2] \in DOMAIN pending_posts'
      ]_vars

\* A single item and a media group of one user are both refused at this moment:
\* nothing was created, the quota record is the loaded one, and no reviewer has
\* been sent anything.
C22_Witness ==
    /\ handlers["h1"].pc = "reply_limit"
    /\ sweep.pc = "limit_notify"
    /\ created = 0
    /\ pending_posts = <<>>
    /\ review_msgs = {}
    /\ user_limits["u1"].total_suggestions = user_limits["u1"].suggestions_today
    /\ user_limits["u1"].last_suggestion_time = 0

\* C23: update_post_status succeeds only on a pending submission: called with
\* the id of a resolved submission or with an unknown id it returns False and
\* leaves the store as it is, and it returns True exactly for a pending one.
C23_SetStatusOnlyPending ==
    \A id \in CallbackIds, status \in {"approved", "rejected"} :
        LET pend == id \in DOMAIN pending_posts /\ pending_posts[id].status = "pending"
        IN  /\ update_post_status_result(pending_posts, id) = pend
            /\ ~pend => update_post_status(pending_posts, id, status) = pending_posts

\* C24: at every await and between handlers, pending_posts.json holds what the
\* in-memory store holds: of every submission, the media_ids last written to
\* the file are the media_ids the store has now (ids, captions and statuses are
\* written by the same call that sets them and never change otherwise).
C24_FileEqualsStore ==
    \A id \in DOMAIN pending_posts :
        pending_posts[id].saved = MediaIds(pending_posts[id])

\* C25: a write of a data file that raises undoes its operation: the intake or
\* the resolve it interrupts leaves user_limits and pending_posts as they were
\* before it (nothing created, resolved or charged in memory only), and the
\* actor is told of the error: the handler does not just end by the exception,
\* the callback is answered with the error.
C25_WriteFailureKeepsState ==
    [][/\ \A h \in Handlers, file \in DataFiles, at \in FailurePoints :
            SuggestSingleWriteFails(h, file, at) =>
                /\ UNCHANGED <<user_limits, pending_posts, created>>
                /\ handlers'[h].pc # "raised"
       /\ \A c \in Callbacks, action \in {"approve", "reject"},
             id \in DOMAIN pending_posts, file \in DataFiles,
             at \in FailurePoints :
            CallbackStartWriteFails(c, MAIN_ADMIN_ID, action, id, file, at) =>
                /\ UNCHANGED <<user_limits, pending_posts>>
                /\ callbacks'[c].answer.kind = "error"
      ]_vars

\* C26: whether the decision notice to the submitter is delivered or its send
\* fails, the step leaves the store and the quota records as they are (the
\* status and the counter set by the decision stay) and the callback goes on to
\* the edit of the review message.
C26_NoticeFailureKeepsDecision ==
    [][\A c \in Callbacks :
        (callbacks[c].pc = "notify_user" /\ callbacks'[c] # callbacks[c]) =>
            LET post == callbacks[c].post
            IN  /\ callbacks'[c].pc = "edit"
                /\ pending_posts' = pending_posts
                /\ user_limits' = user_limits
                /\ pending_posts'[callbacks[c].post_id].status =
                        Decision(callbacks[c].action)
                /\ hist'[post.serial].counted = 1
      ]_vars

\* A reject ran to its end though its notice to the submitter was not
\* delivered: the post is rejected and the submitter's counter has it.
C26_Witness ==
    \E c \in Callbacks :
        /\ callbacks[c].pc = "answered" /\ callbacks[c].answer.kind = "done"
        /\ callbacks[c].action = "reject"
        /\ hist[callbacks[c].post.serial].noticed = 0
        /\ pending_posts[callbacks[c].post_id].status = "rejected"
        /\ user_limits[callbacks[c].post.user_id].rejected_suggestions = 1

\* C27: when a resolve has succeeded, every reviewer other than the one who
\* decided has been sent the message that names the resolver and the decision:
\* every stored admin among them got it (the send to the main admin is the one
\* that may have raised), and nobody else did.
C27_OtherReviewersTold ==
    \A c \in Callbacks :
        (callbacks[c].pc = "answered" /\ callbacks[c].answer.kind = "done") =>
            /\ admin_ids \ {callbacks[c].from_user, MAIN_ADMIN_ID} \subseteq callbacks[c].told
            /\ callbacks[c].told \subseteq admin_ids \ {callbacks[c].from_user}

\* Callback c starts in this step, from an authorized reviewer, with an id that
\* is not in the store.
StartsOnUnknown(c) ==
    /\ callbacks[c].pc = "idle"
    /\ callbacks'[c].pc # "idle"
    /\ is_authorized(callbacks'[c].from_user)
    /\ callbacks'[c].post_id \notin DOMAIN pending_posts

\* C28: a resolve callback that names an id not in the store is answered with
\* the not-found notice and changes nothing, in its first step or on its way
\* out (its return, or the error answer when the not-found answer raised): the
\* store, the quota records, the channel and everything sent stay as they are.
C28_UnknownIdNotFound ==
    [][\A c \in Callbacks :
        /\ StartsOnUnknown(c) =>
             /\ callbacks'[c].pc = "answered"
             /\ callbacks'[c].answer = Answer("not_found", None)
             /\ UNCHANGED <<pending_posts, user_limits, channel, notices,
                            review_msgs, created, hist>>
        /\ (callbacks[c].answer.kind = "not_found" /\ callbacks'[c] # callbacks[c]) =>
             /\ \/ callbacks'[c] = IdleCallback
                \/ callbacks'[c] = [callbacks[c] EXCEPT !.answer = Answer("error", None)]
             /\ UNCHANGED <<pending_posts, user_limits, channel, notices,
                            review_msgs, created, hist>>
      ]_vars

\* The main admin's callback on an id that is not in the store was answered
\* with the not-found notice, the two stored submissions still pending.
C28_Witness ==
    \E c \in Callbacks :
        /\ callbacks[c].pc = "answered"
        /\ callbacks[c].answer.kind = "not_found"
        /\ callbacks[c].from_user = MAIN_ADMIN_ID
        /\ callbacks[c].post_id \notin DOMAIN pending_posts
        /\ \A id \in DOMAIN pending_posts : pending_posts[id].status = "pending"
        /\ channel = <<>>

\* A sequence without repeated elements.
NoRepeats(seq) == \A i, j \in 1..Len(seq) : seq[i] = seq[j] => i = j

\* The collector after one call of process_media_group for file f of group g
\* with caption c now, and after the same call once more a second later with
\* caption d.
AddedOnce(g, f, c) ==
    process_media_group(media_group_collector, "u1", g, "photo", f, "m1", c, now)
AddedTwice(g, f, c, d) ==
    process_media_group(AddedOnce(g, f, c), "u1", g, "photo", f, "m2", d,
                        now + MS_PER_SECOND)

\* C29: on every collector, for every group and file id, two calls of
\* process_media_group with that group and file leave the media_ids one call
\* leaves, in which no file id is repeated and the files already there keep
\* their places; repeated with the same caption, the second call changes
\* nothing but last_update; and the step of a handler that takes a part whose
\* file the buffer holds leaves the buffer's media_ids as they are.
C29_AddIsIdempotent ==
    /\ [](\A g \in GroupIds, f \in FileIds :
            /\ AddedTwice(g, f, None, "c1")[g].media_ids =
                   AddedOnce(g, f, None)[g].media_ids
            /\ \A c \in Captions :
                LET once == AddedOnce(g, f, c)
                    twice == AddedTwice(g, f, c, c)
                IN  /\ twice = [once EXCEPT ![g].last_update = now + MS_PER_SECOND]
                    /\ NoRepeats(once[g].media_ids)
                    /\ g \in DOMAIN media_group_collector =>
                           SubSeq(once[g].media_ids, 1,
                                  Len(media_group_collector[g].media_ids))
                               = media_group_collector[g].media_ids)
    /\ [][\A h \in Handlers :
            LET g == handlers[h].media_group_id
            IN  (/\ ChecksPart(h)
                 /\ g \in DOMAIN media_group_collector
                 /\ Contains(media_group_collector[g].media_ids, handlers[h].file_id))
                => /\ media_group_collector'[g].media_ids =
                          media_group_collector[g].media_ids
                   /\ media_group_collector'[g].last_update = now
         ]_vars

\* File f1 of group g1 came twice and f2 once: the buffer holds f1, f2.
C29_Witness ==
    /\ "g1" \in DOMAIN media_group_collector
    /\ media_group_collector["g1"].media_ids = <<"f1", "f2">>
    /\ Len(parts["g1"].files) = 3
    /\ parts["g1"].buffers = 1

\* The caption of group g's buffer, None when there is no buffer.
BufferCaption(collector, g) ==
    IF g \in DOMAIN collector THEN collector[g].caption ELSE None

\* C30: the caption of a buffer is the first caption its parts brought: a part
\* that comes to a buffer with a caption leaves that caption, a part that comes
\* to a buffer with none (or makes the buffer) gives it its own, and no other
\* step changes a buffer's caption; the submission made from a buffer has the
\* caption the buffer has then.
C30_FirstCaptionWins ==
    [][/\ \A h \in Handlers :
            ChecksPart(h) =>
                LET g == handlers[h].media_group_id
                    before == BufferCaption(media_group_collector, g)
                IN  media_group_collector'[g].caption =
                        (IF before # None THEN before ELSE handlers[h].caption)
       /\ \A g \in DOMAIN media_group_collector :
            (g \in DOMAIN media_group_collector'
                /\ media_group_collector'[g].caption # media_group_collector[g].caption)
            => \E h \in Handlers : ChecksPart(h) /\ handlers[h].media_group_id = g
       /\ \A g \in GroupIds :
            CreatesFrom(g) =>
                \E id \in DOMAIN pending_posts' :
                    /\ pending_posts'[id].serial = created'
                    /\ pending_posts'[id].media_group_id = g
                    /\ pending_posts'[id].caption = media_group_collector[g].caption
      ]_vars

\* The parts of g1 brought the captions c1 and then c2 to one buffer: the
\* buffer and the submission made from it have c1.
C30_Witness ==
    /\ parts["g1"].captions = <<"c1", "c2">>
    /\ parts["g1"].buffers = 1
    /\ "g1" \in DOMAIN media_group_collector
    /\ media_group_collector["g1"].caption = "c1"
    /\ \E id \in GroupPosts("g1") :
          /\ pending_posts[id].caption = "c1"
          /\ Len(MediaIds(pending_posts[id])) = 2

\* C31: what the channel received from the approval of a submission made from
\* a media group is all the media_ids of the submission, in their stored
\* order, whatever the media type of the group.
C31_WholeGroupPublished ==
    \A i \in 1..Len(channel) :
        \A id \in DOMAIN pending_posts :
            LET post == pending_posts[id]
            IN  (post.serial = channel[i].serial /\ post.media_group_id # None)
                    => channel[i].media = MediaIds(post)

\* Callback c starts in this step from an identity that is neither the main
\* admin nor a stored admin.
StartsUnauthorized(c) ==
    /\ callbacks[c].pc = "idle"
    /\ callbacks'[c].pc # "idle"
    /\ callbacks'[c].from_user # MAIN_ADMIN_ID
    /\ callbacks'[c].from_user \notin admins

\* C32: an approve or reject callback from an identity that is neither the main
\* admin nor a stored admin is refused, whatever the id it names and the status
\* of the submission, and neither its first step nor its way out changes the
\* store, the quota records or the channel.
C32_OnlyReviewersResolve ==
    [][\A c \in Callbacks :
        /\ StartsUnauthorized(c) =>
             /\ callbacks'[c].pc = "answered"
             /\ callbacks'[c].answer = Answer("unauthorized", None)
             /\ UNCHANGED <<pending_posts, user_limits, channel, notices, hist>>
        /\ (callbacks[c].answer.kind = "unauthorized" /\ callbacks'[c] # callbacks[c]) =>
             /\ callbacks'[c] = IdleCallback
             /\ UNCHANGED <<pending_posts, user_limits, channel, notices, hist>>
      ]_vars

\* Submitter u1 pressed approve on a stored pending submission and was refused:
\* the submission is still pending and the channel is empty.
C32_Witness ==
    \E c \in Callbacks :
        /\ callbacks[c].pc = "answered"
        /\ callbacks[c].answer.kind = "unauthorized"
        /\ callbacks[c].from_user = "u1"
        /\ callbacks[c].action = "approve"
        /\ callbacks[c].post_id \in DOMAIN pending_posts
        /\ pending_posts[callbacks[c].post_id].status = "pending"
        /\ channel = <<>>

\* The number of u's submissions in the store with status pending.
PendingOf(u) ==
    Cardinality({id \in DOMAIN pending_posts :
                    /\ pending_posts[id].user_id = u
                    /\ pending_posts[id].status = "pending"})

\* C34: for every user, total_suggestions is approved_suggestions plus
\* rejected_suggestions plus the number of the user's pending submissions in the
\* store; a user with no quota record has no pending submission.
C34_Conservation ==
    \A u \in Identities :
        IF u \in DOMAIN user_limits
        THEN user_limits[u].total_suggestions =
                 user_limits[u].approved_suggestions
                 + user_limits[u].rejected_suggestions + PendingOf(u)
        ELSE PendingOf(u) = 0

\* C35: the content of a stored submission is fixed: no step changes the
\* media_ids or the caption of a submission that stays in the store, whether or
\* not its finalization is still running.
C35_ContentFixed ==
    [][\A id \in DOMAIN pending_posts :
          (id \in DOMAIN pending_posts'
           /\ pending_posts'[id].serial = pending_posts[id].serial)
              => /\ MediaIds(pending_posts[id])' = MediaIds(pending_posts[id])
                 /\ pending_posts'[id].caption = pending_posts[id].caption
      ]_vars

\* The buffer of group g is marked complete, its finalization is over and no
\* stored submission holds its list of media ids: the scan of the sweep skips
\* it, the finalization returns at once on it and nothing deletes it.
Stranded(g) ==
    /\ g \in DOMAIN media_group_collector
    /\ media_group_collector[g].complete
    /\ ~Finalizing(g)
    /\ \A id \in DOMAIN pending_posts : pending_posts[id].shared # g

\* C36: no accepted part is lost.  A part reaches a submission or a refusal
\* notice only through a finalization of its buffer that starts or is running
\* once the part is in, so no part is accepted into a buffer whose
\* finalization is over: no file id is added to it.
C36_NoPartLost ==
    [][\A g \in GroupIds :
          Stranded(g) =>
              /\ g \in DOMAIN media_group_collector'
              /\ media_group_collector'[g].media_ids = media_group_collector[g].media_ids
      ]_vars

\* C37: a media group sent by an authorized admin makes no pending submission,
\* does not touch the admin's quota record and is not dispatched to the
\* reviewers.
C37_AdminGroupNotQueued ==
    /\ \A id \in DOMAIN pending_posts : pending_posts[id].user_id \notin admin_ids
    /\ \A a \in admin_ids : a \notin DOMAIN user_limits
    /\ review_msgs = {}

\* The identity is the main admin or is in the stored admin set now.
Authorized(who) == who = MAIN_ADMIN_ID \/ who \in admins

\* The last post of the channel after this step.
Sent == channel'[Len(channel')]

\* C33: every post on the channel is a direct post of media whose sender was
\* authorized when handle_message read its role, or the content of a stored
\* submission that a reviewer authorized at that time approved and that has the
\* status approved when it is sent: a handler takes the admin branch exactly
\* for senders authorized at that moment, a callback reaches its channel send
\* only as an approval by an identity authorized at that moment, and nothing
\* else sends to the channel.
C33_NothingUnreviewedPublished ==
    [][/\ \A h \in Handlers :
            (handlers[h].pc = "idle" /\ handlers'[h].pc # "idle")
                => (handlers'[h].is_admin <=> Authorized(handlers'[h].user))
       /\ \A c \in Callbacks :
            (callbacks[c].pc = "idle" /\ callbacks'[c].pc = "publish")
                => /\ Authorized(callbacks'[c].from_user)
                   /\ callbacks'[c].action = "approve"
                   /\ callbacks'[c].post.status = "approved"
       /\ channel' # channel =>
            /\ Len(channel') = Len(channel) + 1
            /\ \/ /\ Sent.serial = 0
                  /\ \E h \in Handlers :
                        /\ handlers[h].pc = "set_commands"
                        /\ handlers'[h].pc = "reply_posted"
                        /\ handlers[h].is_admin
                        /\ Sent.media = <<handlers[h].file_id>>
               \/ /\ Sent.serial > 0
                  /\ \E c \in Callbacks :
                        /\ callbacks[c].pc = "publish"
                        /\ callbacks'[c].pc # "publish"
                        /\ callbacks[c].post.serial = Sent.serial
                        /\ callbacks[c].post.status = "approved"
                  /\ \A id \in DOMAIN pending_posts :
                        pending_posts[id].serial = Sent.serial
                            => pending_posts[id].status = "approved"
      ]_vars

\* The channel holds a direct post of adm, who was removed from the admins
\* afterwards, and the photo of u1's submission, which is approved.
C33_Witness ==
    /\ "adm" \notin admins
    /\ Len(channel) = 2
    /\ channel[1] = [media |-> <<"f2">>, caption |-> "c2", serial |-> 0]
    /\ channel[2].serial = 1
    /\ \E id \in DOMAIN pending_posts :
          /\ pending_posts[id].serial = 1
          /\ pending_posts[id].user_id = "u1"
          /\ pending_posts[id].status = "approved"

\* The identities /remove_admin was handled for on the main admin's order.
Removed ==
    {cmd.arg : cmd \in {x \in commands : x.name = "remove_admin"
                                          /\ x.from = MAIN_ADMIN_ID}}

\* C38: once /remove_admin of an identity by the main admin was handled, every
\* approve or reject callback that starts from that identity is refused and
\* changes neither the store, the quota records, the channel nor the notices,
\* whether or not a review message was delivered to it before; the main admin
\* is never refused, removed or not; and no step adds to the admin set.
C38_RemovedCannotResolve ==
    [][/\ admins' \subseteq admins
       /\ \A c \in Callbacks :
            (/\ callbacks[c].pc = "idle"
             /\ callbacks'[c].pc # "idle"
             /\ callbacks'[c].action \in {"approve", "reject"}) =>
                LET who == callbacks'[c].from_user
                IN  /\ (who \in Removed /\ who # MAIN_ADMIN_ID) =>
                          /\ callbacks'[c].pc = "answered"
                          /\ callbacks'[c].answer.kind = "unauthorized"
                          /\ UNCHANGED <<pending_posts, user_limits, channel,
                                         notices, review_msgs, hist>>
                    /\ who = MAIN_ADMIN_ID =>
                          callbacks'[c].answer.kind # "unauthorized"
      ]_vars

\* adm was removed by the main admin and then pressed approve on the review
\* message delivered to it before: the callback is refused and the submission
\* is still pending.
C38_Witness ==
    \E c \in Callbacks :
        /\ "adm" \in Removed
        /\ callbacks[c].pc = "answered"
        /\ callbacks[c].from_user = "adm"
        /\ callbacks[c].action = "approve"
        /\ callbacks[c].answer.kind = "unauthorized"
        /\ <<"adm", callbacks[c].post_id>> \in review_msgs
        /\ pending_posts[callbacks[c].post_id].status = "pending"

\* C39: once /add_admin of an identity by the main admin was handled (and no
\* /remove_admin of it), the identity is in the stored admin set and is one of
\* the reviewers of later submissions.
C39_AddAdminAdds ==
    \A cmd \in commands :
        (cmd.name = "add_admin" /\ cmd.from = MAIN_ADMIN_ID /\ cmd.arg \notin Removed)
            => /\ cmd.arg \in admins
               /\ cmd.arg \in admin_ids

====
